---- MODULE Spec2Model ----
(***************************************************************************)
(* Model of the two API test generators of e2e_tests_generator:            *)
(*   src/tests/mitm/tests_generator.py        (proxy capture, "mitm")      *)
(*   src/tests/playwright/tests_generator.py  (recorder capture, "pw")     *)
(*                                                                         *)
(* Python strings are TLA+ strings, read character by character with      *)
(* SubSeq.  A Python value (None, bool, int, float, str, list, dict) is a *)
(* record [t, s, n, d, items]: t the type tag, s the text of a str, n/d   *)
(* the number of a bool, int or float (d a power of ten), items the       *)
(* entries of a list (keys "") or of a dict, in insertion order.          *)
(***************************************************************************)
EXTENDS Integers, Sequences, FiniteSets, TLC

(* ------------------------------------------------------------------ *)
(* Characters and strings (Python str methods and the re patterns)     *)
(* ------------------------------------------------------------------ *)

Digits == "0123456789"

\* characters outside ASCII for which str.isdigit() is true and which int() and
\* float() do not accept: the superscript digits of Latin-1
SuperscriptDigits == "²³¹"
UpperCase == "ABCDEFGHIJKLMNOPQRSTUVWXYZ"
LowerCase == "abcdefghijklmnopqrstuvwxyz"
\* The printable ASCII characters, code points 32..126 in order; the place of the
\* backquote (96), which a TLA+ string cannot hold, is kept by a form feed.
Ascii == " !\"#$%&'()*+,-./0123456789:;<=>?@ABCDEFGHIJKLMNOPQRSTUVWXYZ[\\]^_\fabcdefghijklmnopqrstuvwxyz{|}~"

Ch(s, i) == SubSeq(s, i, i)

IsIn(c, chars) == \E i \in 1..Len(chars) : Ch(chars, i) = c

IndexIn(c, chars) == CHOOSE i \in 1..Len(chars) : Ch(chars, i) = c

\* ord(c)
Ord(c) ==
    IF c = "\t" THEN 9
    ELSE IF c = "²" THEN 178
    ELSE IF c = "³" THEN 179
    ELSE IF c = "¹" THEN 185
    ELSE IF c = "\f" THEN 12
    ELSE IF c = "\n" THEN 10
    ELSE IF c = "\r" THEN 13
    ELSE IndexIn(c, Ascii) + 31

\* chr(n) for the printable range
Chr(n) == Ch(Ascii, n - 31)

SetMin(S) == CHOOSE x \in S : \A y \in S : x <= y

SetMax(S) == CHOOSE x \in S : \A y \in S : x >= y

StartsWithAt(s, sub, i) ==
    /\ i >= 1
    /\ i + Len(sub) - 1 <= Len(s)
    /\ SubSeq(s, i, i + Len(sub) - 1) = sub

\* s.find(sub, from), 1-based; 0 when sub does not occur
Find(s, sub, from) ==
    LET hits == {i \in from..(Len(s) - Len(sub) + 1) : StartsWithAt(s, sub, i)}
    IN  IF hits = {} THEN 0 ELSE SetMin(hits)

\* sub in s
Contains(s, sub) == Find(s, sub, 1) # 0

\* s.endswith(sub)
EndsWith(s, sub) == StartsWithAt(s, sub, Len(s) - Len(sub) + 1)

\* s[i:] with a 1-based i
From(s, i) == SubSeq(s, i, Len(s))

\* s.count(c) for a single character
CountCh(s, c) == Cardinality({i \in 1..Len(s) : Ch(s, i) = c})

\* s.isdigit() on ASCII text
\* s.isdigit()
IsDigitStr(s) ==
    Len(s) > 0 /\ \A i \in 1..Len(s) : IsIn(Ch(s, i), Digits) \/ IsIn(Ch(s, i), SuperscriptDigits)

\* a non-empty string of the decimal digits 0-9
IsDecimalStr(s) == Len(s) > 0 /\ \A i \in 1..Len(s) : IsIn(Ch(s, i), Digits)

IsAlnum(c) == IsIn(c, Digits) \/ IsIn(c, UpperCase) \/ IsIn(c, LowerCase)

LowerCh(c) == IF IsIn(c, UpperCase) THEN Ch(LowerCase, IndexIn(c, UpperCase)) ELSE c

RECURSIVE MapChars(_, _, _)
\* the string s with every character c replaced by conv[c] (kind selects conv)
MapChars(s, kind, i) ==
    IF i > Len(s) THEN ""
    ELSE LET c == Ch(s, i)
             r == CASE kind = "lower" -> LowerCh(c)
                    [] kind = "alnum" -> IF IsAlnum(c) THEN c ELSE "_"
                    [] kind = "word"  -> IF IsAlnum(c) \/ c = "_" THEN c ELSE "_"
         IN  r \o MapChars(s, kind, i + 1)

\* s.lower()
Lower(s) == MapChars(s, "lower", 1)

\* re.sub(r'[^a-zA-Z0-9]', '_', s)
SubNonAlnum(s) == MapChars(s, "alnum", 1)

\* re.sub(r'[^a-zA-Z0-9_]', '_', s)
SubNonWord(s) == MapChars(s, "word", 1)

\* s from position i on, its runs of underscores left as they are
KeepUnderscores(s, i) == SubSeq(s, i, Len(s))

RECURSIVE SquashUnderscores(_, _)
\* re.sub(r'_+', '_', s), from position i
SquashUnderscores(s, i) ==
    IF i > Len(s) THEN ""
    ELSE IF Ch(s, i) = "_" /\ i > 1 /\ Ch(s, i - 1) = "_" THEN SquashUnderscores(s, i + 1)
    ELSE Ch(s, i) \o SquashUnderscores(s, i + 1)

\* s.strip(c) for one character c
StripCh(s, c) ==
    LET keep == {i \in 1..Len(s) : Ch(s, i) # c}
    IN  IF keep = {} THEN "" ELSE SubSeq(s, SetMin(keep), SetMax(keep))

\* s.strip(): leading and trailing whitespace removed
StripWs(s) ==
    LET keep == {i \in 1..Len(s) : ~IsIn(Ch(s, i), " \t\n\r")}
    IN  IF keep = {} THEN "" ELSE SubSeq(s, SetMin(keep), SetMax(keep))

RECURSIVE Split(_, _)
\* s.split(sep): the sequence of pieces, always at least one
Split(s, sep) ==
    LET p == Find(s, sep, 1)
    IN  IF p = 0 THEN <<s>>
        ELSE <<SubSeq(s, 1, p - 1)>> \o Split(From(s, p + Len(sep)), sep)

\* s.split(sep, 1)
Split1(s, sep) ==
    LET p == Find(s, sep, 1)
    IN  IF p = 0 THEN <<s>> ELSE <<SubSeq(s, 1, p - 1), From(s, p + Len(sep))>>

RECURSIVE Join(_, _)
\* sep.join(parts)
Join(parts, sep) ==
    IF Len(parts) = 0 THEN ""
    ELSE IF Len(parts) = 1 THEN parts[1]
    ELSE parts[1] \o sep \o Join(Tail(parts), sep)

\* s.replace(c, '', 1): the first occurrence of c removed
RemoveFirst(s, c) ==
    LET p == Find(s, c, 1)
    IN  IF p = 0 THEN s ELSE SubSeq(s, 1, p - 1) \o From(s, p + Len(c))

RECURSIVE ReplaceAll(_, _, _)
\* s.replace(old, new)
ReplaceAll(s, old, new) ==
    LET p == Find(s, old, 1)
    IN  IF p = 0 THEN s
        ELSE SubSeq(s, 1, p - 1) \o new \o ReplaceAll(From(s, p + Len(old)), old, new)

RECURSIVE StrLess(_, _, _)
\* a < b on str (code point order), comparing from position i
StrLess(a, b, i) ==
    IF i > Len(b) THEN FALSE
    ELSE IF i > Len(a) THEN TRUE
    ELSE IF Ch(a, i) = Ch(b, i) THEN StrLess(a, b, i + 1)
    ELSE Ord(Ch(a, i)) < Ord(Ch(b, i))

\* the end (1-based, inclusive) of the longest run of characters from i on that
\* are not in stop; i - 1 when the run is empty
RunEnd(s, i, stop) ==
    LET stops == {j \in i..Len(s) : IsIn(Ch(s, j), stop)}
    IN  IF stops = {} THEN Len(s) ELSE SetMin(stops) - 1

RECURSIVE ParseInt(_, _)
\* int(s) for a string of ASCII digits: the value of its first i digits
ParseInt(s, i) == IF i = 0 THEN 0 ELSE 10 * ParseInt(s, i - 1) + (IndexIn(Ch(s, i), Digits) - 1)

RECURSIVE IntToStr(_)
\* str(n) for n >= 0
IntToStr(n) == IF n < 10 THEN Ch(Digits, n + 1) ELSE IntToStr(n \div 10) \o Ch(Digits, (n % 10) + 1)

RECURSIVE Pow10(_)
Pow10(k) == IF k = 0 THEN 1 ELSE 10 * Pow10(k - 1)

(* ------------------------------------------------------------------ *)
(* Python values                                                       *)
(* ------------------------------------------------------------------ *)

PyNone == [t |-> "none", s |-> "", n |-> 0, d |-> 1, items |-> <<>>]

PyStr(x) == [t |-> "str", s |-> x, n |-> 0, d |-> 1, items |-> <<>>]

PyInt(k) == [t |-> "int", s |-> "", n |-> k, d |-> 1, items |-> <<>>]

PyBool(b) == [t |-> "bool", s |-> "", n |-> IF b THEN 1 ELSE 0, d |-> 1, items |-> <<>>]

\* the float num / den, den a power of ten
PyFloat(num, den) == [t |-> "float", s |-> "", n |-> num, d |-> den, items |-> <<>>]

\* entries: a sequence of [k |-> key, v |-> value], in insertion order
PyDict(entries) == [t |-> "dict", s |-> "", n |-> 0, d |-> 1, items |-> entries]

\* entries: a sequence of [k |-> "", v |-> value]
PyList(entries) == [t |-> "list", s |-> "", n |-> 0, d |-> 1, items |-> entries]

IsNumber(v) == v.t \in {"bool", "int", "float"}

\* bool(v): the truth value Python gives v in `if v:` and `not v`
Truthy(v) ==
    CASE v.t = "none" -> FALSE
      [] v.t = "str" -> v.s # ""
      [] v.t \in {"dict", "list"} -> Len(v.items) > 0
      [] OTHER -> v.n # 0

\* dict.keys() in insertion order
DictKeys(v) == [i \in 1..Len(v.items) |-> v.items[i].k]

\* key in dict
HasKey(v, key) == \E i \in 1..Len(v.items) : v.items[i].k = key

\* dict[key] for a key the dict has
DictGet(v, key) == v.items[CHOOSE i \in 1..Len(v.items) : v.items[i].k = key].v

\* a == b on scalars: numbers compare by value whatever their type (True == 1 == 1.0)
ScalarEq(a, b) ==
    IF IsNumber(a) /\ IsNumber(b) THEN a.n * b.d = b.n * a.d
    ELSE a.t = b.t /\ a.s = b.s

\* a < b on scalars: "lt", "ge", or "err" for the TypeError of unorderable types
ScalarLess(a, b) ==
    IF IsNumber(a) /\ IsNumber(b) THEN (IF a.n * b.d < b.n * a.d THEN "lt" ELSE "ge")
    ELSE IF a.t = "str" /\ b.t = "str" THEN (IF StrLess(a.s, b.s, 1) THEN "lt" ELSE "ge")
    ELSE "err"

\* str(v) of a scalar
ScalarToStr(v) ==
    CASE v.t = "none" -> "None"
      [] v.t = "str" -> v.s
      [] v.t = "bool" -> IF v.n = 1 THEN "True" ELSE "False"
      [] v.t = "int" -> IntToStr(v.n)
      [] v.t = "float" ->
            LET whole == v.n \div v.d
                frac == v.n % v.d
                \* the fraction digits, zero padded to the width of d, trailing zeros cut
                width == Len(IntToStr(v.d)) - 1
                raw == IntToStr(v.d + frac)
                padded == SubSeq(raw, 2, Len(raw))
                last == {i \in 1..Len(padded) : Ch(padded, i) # "0"}
            IN  IntToStr(whole) \o "." \o
                (IF last = {} THEN "0" ELSE SubSeq(padded, 1, SetMax(last)))

(* ------------------------------------------------------------------ *)
(* Value coercion and query strings                                    *)
(* ------------------------------------------------------------------ *)

\* the outcome of a call that raises ValueError instead of returning a value
ValueError == [t |-> "ValueError", s |-> "", n |-> 0, d |-> 1, items |-> <<>>]

\* parse_value comparing with null, true and false in lower case only
ParseValueCaseSensitive(value) ==
    IF value = "" THEN PyStr("")
    ELSE IF value = "null" THEN PyNone
    ELSE IF value = "true" THEN PyBool(TRUE)
    ELSE IF value = "false" THEN PyBool(FALSE)
    ELSE IF IsDigitStr(value) THEN
        IF IsDecimalStr(value) THEN PyInt(ParseInt(value, Len(value))) ELSE ValueError
    ELSE IF IsDigitStr(RemoveFirst(value, ".")) /\ CountCh(value, ".") = 1 THEN
        LET dot == Find(value, ".", 1)
            digits == RemoveFirst(value, ".")
        IN  IF IsDecimalStr(digits)
            THEN PyFloat(ParseInt(digits, Len(digits)), Pow10(Len(value) - dot))
            ELSE ValueError
    ELSE PyStr(value)

\* parse_value taking for a float only digits, a dot and digits
ParseValueStrictFloat(value) ==
    IF value = "" THEN PyStr("")
    ELSE IF Lower(value) = "null" THEN PyNone
    ELSE IF Lower(value) = "true" THEN PyBool(TRUE)
    ELSE IF Lower(value) = "false" THEN PyBool(FALSE)
    ELSE IF IsDigitStr(value) THEN
        IF IsDecimalStr(value) THEN PyInt(ParseInt(value, Len(value))) ELSE ValueError
    ELSE IF /\ IsDigitStr(RemoveFirst(value, ".")) /\ CountCh(value, ".") = 1
            /\ Ch(value, 1) # "." /\ Ch(value, Len(value)) # "." THEN
        LET dot == Find(value, ".", 1)
            digits == RemoveFirst(value, ".")
        IN  IF IsDecimalStr(digits)
            THEN PyFloat(ParseInt(digits, Len(digits)), Pow10(Len(value) - dot))
            ELSE ValueError
    ELSE PyStr(value)

\* APITestGenerator.parse_value (the same text in both generators).  int() and
\* float() raise ValueError on a digit that is not a decimal digit
parse_value(value) ==
    IF value = "" THEN PyStr("")
    ELSE IF Lower(value) = "null" THEN PyNone
    ELSE IF Lower(value) = "true" THEN PyBool(TRUE)
    ELSE IF Lower(value) = "false" THEN PyBool(FALSE)
    ELSE IF IsDigitStr(value) THEN
        IF IsDecimalStr(value) THEN PyInt(ParseInt(value, Len(value))) ELSE ValueError
    ELSE IF IsDigitStr(RemoveFirst(value, ".")) /\ CountCh(value, ".") = 1 THEN
        LET dot == Find(value, ".", 1)
            digits == RemoveFirst(value, ".")
        IN  IF IsDecimalStr(digits)
            THEN PyFloat(ParseInt(digits, Len(digits)), Pow10(Len(value) - dot))
            ELSE ValueError
    ELSE PyStr(value)

HexDigits == "0123456789ABCDEF"

IsHex(c) == IsIn(c, HexDigits) \/ IsIn(c, "abcdef")

HexVal(c) == IF IsIn(c, HexDigits) THEN IndexIn(c, HexDigits) - 1 ELSE IndexIn(c, "abcdef") + 9

RECURSIVE unquote(_)
\* urllib.parse.unquote: %XX becomes the character of code XX (the printable
\* ASCII range is modelled; any other escape is left as it stands)
unquote(s) ==
    LET p == Find(s, "%", 1)
    IN  IF p = 0 THEN s
        ELSE IF /\ p + 2 <= Len(s)
                /\ IsHex(Ch(s, p + 1))
                /\ IsHex(Ch(s, p + 2))
                /\ 16 * HexVal(Ch(s, p + 1)) + HexVal(Ch(s, p + 2)) \in 32..126
                /\ 16 * HexVal(Ch(s, p + 1)) + HexVal(Ch(s, p + 2)) # 96
             THEN SubSeq(s, 1, p - 1)
                  \o Chr(16 * HexVal(Ch(s, p + 1)) + HexVal(Ch(s, p + 2)))
                  \o unquote(From(s, p + 3))
             ELSE SubSeq(s, 1, p) \o unquote(From(s, p + 1))

\* params[key] = value on an insertion-ordered dict (a sequence of [k, v])
DictSet(entries, key, value) ==
    IF \E i \in 1..Len(entries) : entries[i].k = key
    THEN [i \in 1..Len(entries) |->
            IF entries[i].k = key THEN [k |-> key, v |-> value] ELSE entries[i]]
    ELSE Append(entries, [k |-> key, v |-> value])

RECURSIVE ParseParamList(_, _)
\* the loop of parse_query_params over the pieces of query_string.split('&');
\* an exception of parse_value ends the loop (except: pass) and the parameters
\* set so far are returned
ParseParamList(pieces, params) ==
    IF Len(pieces) = 0 THEN params
    ELSE LET param == Head(pieces)
             kv == Split1(param, "=")
         IN  IF Contains(param, "=")
             THEN LET value == parse_value(unquote(kv[2]))
                  IN  IF value = ValueError THEN params
                      ELSE ParseParamList(Tail(pieces), DictSet(params, unquote(kv[1]), value))
             ELSE ParseParamList(Tail(pieces), params)

\* APITestGenerator.parse_query_params (the same text in both generators)
parse_query_params(query_string) == ParseParamList(Split(query_string, "&"), <<>>)

RECURSIVE InsertSorted(_, _)
\* e put into the key-sorted sequence of entries (the keys of a dict are distinct)
InsertSorted(sorted, e) ==
    IF Len(sorted) = 0 THEN <<e>>
    ELSE IF StrLess(e.k, Head(sorted).k, 1) THEN <<e>> \o sorted
    ELSE <<Head(sorted)>> \o InsertSorted(Tail(sorted), e)

RECURSIVE SortedItems(_)
\* tuple(sorted(params.items())): the keys are distinct, so the order is by key
\* alone and no two values are ever compared
SortedItems(entries) ==
    IF Len(entries) = 0 THEN <<>>
    ELSE InsertSorted(SortedItems(SubSeq(entries, 1, Len(entries) - 1)), entries[Len(entries)])

\* a == b on two tuples of (key, scalar) pairs
ItemsEq(a, b) ==
    /\ Len(a) = Len(b)
    /\ \A i \in 1..Len(a) : a[i].k = b[i].k /\ ScalarEq(a[i].v, b[i].v)

RECURSIVE ItemsCompare(_, _, _)
\* a < b on two tuples of (key, scalar) pairs, from position i: "lt", "eq", "gt",
\* or "err" when the first pair that differs holds values Python cannot order
ItemsCompare(a, b, i) ==
    IF i > Len(a) /\ i > Len(b) THEN "eq"
    ELSE IF i > Len(a) THEN "lt"
    ELSE IF i > Len(b) THEN "gt"
    ELSE IF a[i].k # b[i].k THEN (IF StrLess(a[i].k, b[i].k, 1) THEN "lt" ELSE "gt")
    ELSE IF ScalarEq(a[i].v, b[i].v) THEN ItemsCompare(a, b, i + 1)
    ELSE IF ScalarLess(a[i].v, b[i].v) = "err" THEN "err"
    ELSE IF ScalarLess(a[i].v, b[i].v) = "lt" THEN "lt"
    ELSE "gt"

(* ------------------------------------------------------------------ *)
(* JSON text, Python literals and their printers                       *)
(* ------------------------------------------------------------------ *)

\* the first position from i on that holds no whitespace (Len(s) + 1 if none)
SkipWs(s, i) ==
    LET rest == {j \in i..Len(s) : ~IsIn(Ch(s, j), " \t\n\r")}
    IN  IF rest = {} THEN Len(s) + 1 ELSE SetMin(rest)

ParseFail == [ok |-> FALSE, v |-> PyNone, pos |-> 0]

ParseOk(value, next) == [ok |-> TRUE, v |-> value, pos |-> next]

RECURSIVE ParseString(_, _, _, _)
\* the text of a quoted string whose body starts at i and ends at the first
\* unescaped quote q; acc is the text read so far
ParseString(s, i, q, acc) ==
    IF i > Len(s) THEN ParseFail
    ELSE IF Ch(s, i) = q THEN ParseOk(PyStr(acc), i + 1)
    ELSE IF Ch(s, i) = "\\" THEN
        IF i + 1 > Len(s) THEN ParseFail
        ELSE LET e == Ch(s, i + 1)
                 c == CASE e = "n" -> "\n"
                        [] e = "r" -> "\r"
                        [] e = "t" -> "\t"
                        [] OTHER -> e
             IN  ParseString(s, i + 2, q, acc \o c)
    ELSE ParseString(s, i + 1, q, acc \o Ch(s, i))

\* the non-negative number whose digits start at i: an int, or a float when a
\* fraction follows
ParseNumber(s, i) ==
    LET e == RunEnd(s, i, " \t\n\r,:]}.")
        whole == SubSeq(s, i, e)
    IN  IF ~IsDecimalStr(whole) THEN ParseFail
        ELSE IF e < Len(s) /\ Ch(s, e + 1) = "." THEN
            LET f == RunEnd(s, e + 2, " \t\n\r,:]}")
                frac == SubSeq(s, e + 2, f)
            IN  IF ~IsDecimalStr(frac) THEN ParseFail
                ELSE ParseOk(PyFloat(ParseInt(whole \o frac, Len(whole \o frac)),
                                     Pow10(Len(frac))), f + 1)
        ELSE ParseOk(PyInt(ParseInt(whole, Len(whole))), e + 1)

\* the spelling of None, True and False in JSON text and in Python source
Word(lang, which) ==
    CASE which = "none" -> IF lang = "json" THEN "null" ELSE "None"
      [] which = "true" -> IF lang = "json" THEN "true" ELSE "True"
      [] which = "false" -> IF lang = "json" THEN "false" ELSE "False"

RECURSIVE ParseValue(_, _, _)
RECURSIVE ParseMembers(_, _, _, _)
RECURSIVE ParseElements(_, _, _, _)

\* one value of JSON text (lang = "json") or of a Python literal (lang = "py")
\* starting at or after position i: [ok, v, pos], pos the position after it
ParseValue(s, i, lang) ==
    LET j == SkipWs(s, i)
    IN  IF j > Len(s) THEN ParseFail
        ELSE IF Ch(s, j) = "{" THEN
            (IF SkipWs(s, j + 1) <= Len(s) /\ Ch(s, SkipWs(s, j + 1)) = "}"
             THEN ParseOk(PyDict(<<>>), SkipWs(s, j + 1) + 1)
             ELSE ParseMembers(s, j + 1, lang, <<>>))
        ELSE IF Ch(s, j) = "[" THEN
            (IF SkipWs(s, j + 1) <= Len(s) /\ Ch(s, SkipWs(s, j + 1)) = "]"
             THEN ParseOk(PyList(<<>>), SkipWs(s, j + 1) + 1)
             ELSE ParseElements(s, j + 1, lang, <<>>))
        ELSE IF Ch(s, j) = "\"" \/ (lang = "py" /\ Ch(s, j) = "'")
            THEN ParseString(s, j + 1, Ch(s, j), "")
        ELSE IF StartsWithAt(s, Word(lang, "none"), j)
            THEN ParseOk(PyNone, j + Len(Word(lang, "none")))
        ELSE IF StartsWithAt(s, Word(lang, "true"), j)
            THEN ParseOk(PyBool(TRUE), j + Len(Word(lang, "true")))
        ELSE IF StartsWithAt(s, Word(lang, "false"), j)
            THEN ParseOk(PyBool(FALSE), j + Len(Word(lang, "false")))
        ELSE ParseNumber(s, j)

\* the members of an object after its "{" or after a ",": a later duplicate of a
\* key replaces the value of the earlier one
ParseMembers(s, i, lang, acc) ==
    LET key == ParseValue(s, i, lang)
        colon == SkipWs(s, key.pos)
    IN  IF ~key.ok \/ key.v.t # "str" THEN ParseFail
        ELSE IF colon > Len(s) \/ Ch(s, colon) # ":" THEN ParseFail
        ELSE LET val == ParseValue(s, colon + 1, lang)
                 sep == SkipWs(s, val.pos)
             IN  IF ~val.ok \/ sep > Len(s) THEN ParseFail
                 ELSE IF Ch(s, sep) = "}"
                     THEN ParseOk(PyDict(DictSet(acc, key.v.s, val.v)), sep + 1)
                 ELSE IF Ch(s, sep) = ","
                     THEN ParseMembers(s, sep + 1, lang, DictSet(acc, key.v.s, val.v))
                 ELSE ParseFail

\* the elements of an array after its "[" or after a ","
ParseElements(s, i, lang, acc) ==
    LET val == ParseValue(s, i, lang)
        sep == SkipWs(s, val.pos)
    IN  IF ~val.ok \/ sep > Len(s) THEN ParseFail
        ELSE IF Ch(s, sep) = "]"
            THEN ParseOk(PyList(Append(acc, [k |-> "", v |-> val.v])), sep + 1)
        ELSE IF Ch(s, sep) = ","
            THEN ParseElements(s, sep + 1, lang, Append(acc, [k |-> "", v |-> val.v]))
        ELSE ParseFail

\* a whole text as one value: [ok, v]; ok is FALSE where json.loads raises
ParseWhole(s, lang) ==
    LET r == ParseValue(s, 1, lang)
    IN  IF r.ok /\ SkipWs(s, r.pos) > Len(s) THEN r ELSE ParseFail

\* json.loads(text), for JSON text without negative numbers, exponents and
\* \u escapes
json_loads(text) == ParseWhole(text, "json")

\* the value Python gives a literal of generated source
PyLiteral(text) == ParseWhole(text, "py")

\* repr(s) of a str: single quotes, unless s holds a ' and no "
ReprStr(s) ==
    LET esc == ReplaceAll(ReplaceAll(ReplaceAll(ReplaceAll(s, "\\", "\\\\"),
                   "\n", "\\n"), "\r", "\\r"), "\t", "\\t")
    IN  IF Contains(s, "'") /\ ~Contains(s, "\"") THEN "\"" \o esc \o "\""
        ELSE "'" \o ReplaceAll(esc, "'", "\\'") \o "'"

\* json.dumps of a str (ASCII text)
JsonStr(s) ==
    "\"" \o ReplaceAll(ReplaceAll(ReplaceAll(ReplaceAll(ReplaceAll(s, "\\", "\\\\"),
                "\"", "\\\""), "\n", "\\n"), "\r", "\\r"), "\t", "\\t") \o "\""

RECURSIVE Render(_, _, _)
RECURSIVE RenderItems(_, _, _, _, _)

\* v printed on one line. lang = "json", sort = TRUE is json.dumps(v,
\* sort_keys=True); lang = "py", sort = TRUE is pprint.pformat(v, width=100) of a
\* value that fits the width (pformat prints a dict in key order); lang = "py",
\* sort = FALSE is str(v) and repr(v)
Render(v, lang, sort) ==
    CASE v.t = "none" -> Word(lang, "none")
      [] v.t = "bool" -> IF v.n = 1 THEN Word(lang, "true") ELSE Word(lang, "false")
      [] v.t \in {"int", "float"} -> ScalarToStr(v)
      [] v.t = "str" -> IF lang = "json" THEN JsonStr(v.s) ELSE ReprStr(v.s)
      [] v.t = "list" -> "[" \o RenderItems(v.items, FALSE, lang, sort, 1) \o "]"
      [] v.t = "dict" ->
            "{" \o RenderItems(IF sort THEN SortedItems(v.items) ELSE v.items,
                               TRUE, lang, sort, 1) \o "}"

RenderItems(items, keyed, lang, sort, i) ==
    IF i > Len(items) THEN ""
    ELSE (IF i > 1 THEN ", " ELSE "")
         \o (IF keyed
             THEN (IF lang = "json" THEN JsonStr(items[i].k) ELSE ReprStr(items[i].k)) \o ": "
             ELSE "")
         \o Render(items[i].v, lang, sort)
         \o RenderItems(items, keyed, lang, sort, i + 1)

RECURSIVE DeepEq(_, _)
\* a == b in Python: numbers by value, lists in order, dicts whatever the order
\* of their keys
DeepEq(a, b) ==
    IF a.t = "dict" /\ b.t = "dict" THEN
        /\ Len(a.items) = Len(b.items)
        /\ \A i \in 1..Len(a.items) :
              /\ HasKey(b, a.items[i].k)
              /\ DeepEq(a.items[i].v, DictGet(b, a.items[i].k))
    ELSE IF a.t = "list" /\ b.t = "list" THEN
        /\ Len(a.items) = Len(b.items)
        /\ \A i \in 1..Len(a.items) : DeepEq(a.items[i].v, b.items[i].v)
    ELSE IF a.t \in {"dict", "list"} \/ b.t \in {"dict", "list"} THEN FALSE
    ELSE ScalarEq(a, b)

(* ------------------------------------------------------------------ *)
(* Captured records                                                    *)
(* ------------------------------------------------------------------ *)
(* One element of the capture list.  kind = "object" is a JSON object,     *)
(* kind = "other" any other JSON value (a string, a number, null).  The    *)
(* proxy capture keeps url, method, headers and body_text under "request"  *)
(* and status_code, headers and body_text under "response"; the recorder   *)
(* capture keeps url and method at the top, the request body under         *)
(* request.body and status, headers and body under "response".             *)
(* has_response = FALSE is "response": null; has_body = FALSE is a         *)
(* response without its body key.                                          *)

Capture(url, method, req_headers, req_body, status, resp_headers, resp_body) ==
    [kind |-> "object", url |-> url, method |-> method,
     req_headers |-> req_headers, req_body |-> req_body,
     has_response |-> TRUE, status |-> status,
     resp_headers |-> resp_headers, has_body |-> TRUE, resp_body |-> resp_body]

Header(name, value) == [k |-> name, v |-> value]

\* headers.get(name, default): the lookup of a dict, exact in letter case
HeaderGet(headers, name, default) ==
    IF \E i \in 1..Len(headers) : headers[i].k = name
    THEN headers[CHOOSE i \in 1..Len(headers) : headers[i].k = name].v
    ELSE default

\* the first match of a pattern prefix([^stop]+)close in s: [found, g], g the
\* group.  close = "" is a pattern that ends with the group
ReSearch(s, prefix, stop, close) ==
    LET starts == {p \in 1..Len(s) :
                    /\ StartsWithAt(s, prefix, p)
                    /\ RunEnd(s, p + Len(prefix), stop) >= p + Len(prefix)
                    /\ \/ close = ""
                       \/ StartsWithAt(s, close, RunEnd(s, p + Len(prefix), stop) + 1)}
    IN  IF starts = {} THEN [found |-> FALSE, g |-> ""]
        ELSE [found |-> TRUE,
              g |-> SubSeq(s, SetMin(starts) + Len(prefix),
                           RunEnd(s, SetMin(starts) + Len(prefix), stop))]

\* urlparse(url): [path, query] of scheme://netloc/path?query#fragment, or of
\* a url without scheme and netloc
urlparse(url) ==
    LET sch == Find(url, "://", 1)
        afterNetloc == IF sch = 0 THEN 1 ELSE RunEnd(url, sch + 3, "/?#") + 1
        noFrag == SubSeq(url, afterNetloc, RunEnd(url, afterNetloc, "#"))
        q == Find(noFrag, "?", 1)
    IN  [path |-> IF q = 0 THEN noFrag ELSE SubSeq(noFrag, 1, q - 1),
         query |-> IF q = 0 THEN "" ELSE From(noFrag, q + 1)]

(* ------------------------------------------------------------------ *)
(* Proxy capture generator: request bodies                             *)
(* ------------------------------------------------------------------ *)

Base64Chars == "ABCDEFGHIJKLMNOPQRSTUVWXYZabcdefghijklmnopqrstuvwxyz0123456789+/"

B64(k) == Ch(Base64Chars, k + 1)

RECURSIVE b64encode(_)
\* base64.b64encode(s.encode('latin-1')).decode('utf-8')
b64encode(s) ==
    IF Len(s) = 0 THEN ""
    ELSE LET a == Ord(Ch(s, 1))
             b == IF Len(s) >= 2 THEN Ord(Ch(s, 2)) ELSE 0
             c == IF Len(s) >= 3 THEN Ord(Ch(s, 3)) ELSE 0
         IN  B64(a \div 4)
             \o B64((a % 4) * 16 + b \div 16)
             \o (IF Len(s) >= 2 THEN B64((b % 16) * 4 + c \div 64) ELSE "=")
             \o (IF Len(s) >= 3 THEN B64(c % 64) ELSE "=")
             \o (IF Len(s) > 3 THEN b64encode(From(s, 4)) ELSE "")

\* ord(c) < 32 and c not in '\r\n\t' (the form feed is the one such character
\* the strings of the model hold)
IsControl(c) == Ord(c) < 32 /\ ~IsIn(c, "\r\n\t")

\* the dict extract_file_info returns for one file part
FileInfo(field_name, filename, content_type, file_data) ==
    LET is_binary == \E i \in 1..Len(file_data) : i <= 100 /\ IsControl(Ch(file_data, i))
    IN  PyDict(<< [k |-> "field_name", v |-> PyStr(field_name)],
                  [k |-> "filename", v |-> PyStr(filename)],
                  [k |-> "content_type", v |-> PyStr(content_type)],
                  [k |-> "is_binary", v |-> PyBool(is_binary)],
                  IF is_binary
                  THEN [k |-> "data_base64", v |-> PyStr(b64encode(file_data))]
                  ELSE [k |-> "data_text", v |-> PyStr(file_data)],
                  [k |-> "size", v |-> PyInt(Len(file_data))] >>)

RECURSIVE FilePartLoop(_, _)
\* the loop of extract_file_info over parts, from part i: the dict of the first
\* part that has a filename and a blank line, None when no part has
FilePartLoop(parts, i) ==
    IF i > Len(parts) THEN PyNone
    ELSE LET part == parts[i]
             filename_match == ReSearch(part, "filename=\"", "\"", "\"")
             content_type_match == ReSearch(part, "Content-Type: ", "\r\n", "")
             name_match == ReSearch(part, "name=\"", "\"", "\"")
             header_end == Find(part, "\r\n\r\n", 1)
             file_data == From(part, header_end + 4)
         IN  IF Contains(part, "filename=") /\ filename_match.found /\ header_end # 0
             THEN FileInfo(IF name_match.found THEN name_match.g ELSE "file",
                           filename_match.g,
                           IF content_type_match.found THEN content_type_match.g
                           ELSE "application/octet-stream",
                           IF EndsWith(file_data, "\r\n")
                           THEN SubSeq(file_data, 1, Len(file_data) - 2)
                           ELSE file_data)
             ELSE FilePartLoop(parts, i + 1)

\* APITestGenerator.extract_file_info: its one argument is the body text, and
\* both the multipart/form-data test and the boundary search read that text
extract_file_info(request_body_text) ==
    IF request_body_text = "" \/ ~Contains(request_body_text, "multipart/form-data") THEN PyNone
    ELSE LET boundary_match == ReSearch(request_body_text, "boundary=", " \t\n\r\f;", "")
         IN  IF ~boundary_match.found THEN PyNone
             ELSE FilePartLoop(Split(request_body_text, "--" \o boundary_match.g), 1)

\* APITestGenerator.extract_request_body of the proxy capture generator
extract_request_body(cap) ==
    LET request_body_text == cap.req_body
        content_type == HeaderGet(cap.req_headers, "Content-Type", "")
    IN  IF request_body_text = "" THEN PyNone
        ELSE IF Contains(content_type, "application/json") THEN
            (IF json_loads(request_body_text).ok THEN json_loads(request_body_text).v
             ELSE PyStr(request_body_text))
        ELSE IF Contains(content_type, "multipart/form-data")
            THEN extract_file_info(request_body_text)
        ELSE PyStr(request_body_text)

(* ------------------------------------------------------------------ *)
(* Normalisation: extract_api_info                                     *)
(* ------------------------------------------------------------------ *)

\* the dict extract_api_info returns; src is the position of the record in the
\* capture list (not a key of the dict: it names the record in the properties)
ApiInfo(src, url, endpoint, method, params, request_body, response_data, response_status, response_is_file, response_filename, response_content_type) ==
    [src |-> src, url |-> url, endpoint |-> endpoint, method |-> method,
     params |-> params, request_body |-> request_body,
     response_data |-> response_data, response_status |-> response_status,
     response_is_file |-> response_is_file, response_filename |-> response_filename,
     response_content_type |-> response_content_type]

NoInfo == ApiInfo(0, "", "", "", <<>>, PyNone, PyNone, 0, FALSE, "", "")

\* what a call does: return a dict ("ok"), return None or {} ("skip"), or let
\* an exception escape ("raise")
Returned(info) == [outcome |-> "ok", info |-> info]

Skipped == [outcome |-> "skip", info |-> NoInfo]

Raised == [outcome |-> "raise", info |-> NoInfo]

\* APITestGenerator.extract_api_info of the proxy capture generator.  A record
\* that is no object has no .get: the AttributeError is caught, and the handler
\* calls transaction.get('id', ...) itself, which raises again outside any try
mitm_extract_api_info(cap, src) ==
    IF cap.kind # "object" THEN Raised
    ELSE IF ~cap.has_response THEN Skipped
    ELSE LET response_body_text == IF cap.has_body THEN cap.resp_body ELSE "{}"
             parsed_url == urlparse(cap.url)
             params == IF parsed_url.query # "" THEN parse_query_params(parsed_url.query)
                       ELSE <<>>
             content_disposition == HeaderGet(cap.resp_headers, "content-disposition", "")
             response_is_file == Contains(content_disposition, "attachment")
             filename_match == ReSearch(content_disposition, "filename=\"", "\"", "\"")
             response_filename == IF ~response_is_file THEN ""
                                  ELSE IF filename_match.found THEN filename_match.g
                                  ELSE "downloaded_file"
             response_data ==
                 IF response_is_file THEN PyStr(response_body_text)
                 ELSE IF StripWs(response_body_text) = "" THEN PyDict(<<>>)
                 ELSE IF json_loads(response_body_text).ok
                     THEN json_loads(response_body_text).v
                 ELSE PyStr(response_body_text)
         IN  Returned(ApiInfo(src, cap.url, parsed_url.path, cap.method, params,
                              extract_request_body(cap), response_data, cap.status,
                              response_is_file, response_filename,
                              HeaderGet(cap.resp_headers, "content-type", "")))

\* the endpoint of the recorder capture generator:
\* re.search(r'(?:https?://[^/]+)?(/api/.*?)(?:\?|$)', url), group 1 running
\* from the first "/api/" to the first "?" after it or to the end
pw_endpoint(url) ==
    LET api == Find(url, "/api/", 1)
    IN  IF api # 0 THEN SubSeq(url, api, RunEnd(url, api, "?"))
        ELSE IF StartsWithAt(url, "/", 1) THEN Split(url, "?")[1]
        ELSE url

\* APITestGenerator.extract_api_info of the recorder capture generator: every
\* exception is caught and the record yields {}
pw_extract_api_info(cap, src) ==
    IF cap.kind # "object" \/ ~cap.has_response THEN Skipped
    ELSE LET response_body == IF cap.has_body THEN cap.resp_body ELSE "{}"
             params == IF Contains(cap.url, "?")
                       THEN parse_query_params(Split(cap.url, "?")[2])
                       ELSE <<>>
             response_data == IF json_loads(response_body).ok
                              THEN json_loads(response_body).v
                              ELSE PyDict(<<>>)
         IN  Returned(ApiInfo(src, cap.url, pw_endpoint(cap.url), cap.method, params,
                              PyNone, response_data, cap.status, FALSE, "", ""))

(* ------------------------------------------------------------------ *)
(* Grouping                                                            *)
(* ------------------------------------------------------------------ *)

NoBodyKey == [kind |-> "none", a |-> "", b |-> ""]

\* body_key of group_by_endpoint_and_params (proxy capture generator)
mitm_body_key(request_body) ==
    IF ~Truthy(request_body) THEN NoBodyKey
    ELSE IF request_body.t = "dict" /\ HasKey(request_body, "field_name") THEN
        [kind |-> "file",
         a |-> Render(DictGet(request_body, "field_name"), "py", FALSE),
         b |-> IF HasKey(request_body, "filename")
               THEN Render(DictGet(request_body, "filename"), "py", FALSE)
               ELSE "None"]
    ELSE IF request_body.t = "dict"
        THEN [kind |-> "json", a |-> Render(request_body, "json", TRUE), b |-> ""]
    ELSE [kind |-> "other",
          a |-> IF request_body.t = "str" THEN request_body.s
                ELSE Render(request_body, "py", FALSE),
          b |-> ""]

\* group_key: (endpoint, method, params_key, body_key); the recorder capture
\* generator has no body_key
group_key(gen_, api_info) ==
    [endpoint |-> api_info.endpoint, method |-> api_info.method,
     params_key |-> SortedItems(api_info.params),
     body_key |-> IF gen_ = "mitm" THEN mitm_body_key(api_info.request_body)
                  ELSE NoBodyKey]

\* k1 == k2 on two group keys, as the dict lookup compares them
KeyEq(k1, k2) ==
    /\ k1.endpoint = k2.endpoint
    /\ k1.method = k2.method
    /\ ItemsEq(k1.params_key, k2.params_key)
    /\ k1.body_key = k2.body_key

\* the position of key in the dict endpoint_tests, 0 when it is not a key
GroupIndex(groups, key) ==
    IF \E i \in 1..Len(groups) : KeyEq(groups[i].key, key)
    THEN CHOOSE i \in 1..Len(groups) : KeyEq(groups[i].key, key)
    ELSE 0

\* the loop iteration had it let the latest member replace the canonical sample
AddToGroupsLatest(gen_, groups, api_info) ==
    LET key == group_key(gen_, api_info)
        at == GroupIndex(groups, key)
    IN  IF at = 0
        THEN Append(groups, [key |-> key, endpoint |-> api_info.endpoint,
                             method |-> api_info.method, params |-> api_info.params,
                             request_body |-> api_info.request_body,
                             samples |-> <<api_info>>])
        ELSE [groups EXCEPT ![at].params = api_info.params,
                            ![at].request_body = api_info.request_body,
                            ![at].samples = <<api_info>> \o @]

\* the loop iteration had it dropped a record whose key is already a key
AddToGroupsOnce(gen_, groups, api_info) ==
    LET key == group_key(gen_, api_info)
    IN  IF GroupIndex(groups, key) = 0
        THEN Append(groups, [key |-> key, endpoint |-> api_info.endpoint,
                             method |-> api_info.method, params |-> api_info.params,
                             request_body |-> api_info.request_body,
                             samples |-> <<api_info>>])
        ELSE groups

\* one iteration of the loop of group_by_endpoint_and_params on a returned dict
AddToGroups(gen_, groups, api_info) ==
    LET key == group_key(gen_, api_info)
        at == GroupIndex(groups, key)
    IN  IF at = 0
        THEN Append(groups, [key |-> key, endpoint |-> api_info.endpoint,
                             method |-> api_info.method, params |-> api_info.params,
                             request_body |-> api_info.request_body,
                             samples |-> <<api_info>>])
        ELSE [groups EXCEPT ![at].samples = Append(@, api_info)]

(* ------------------------------------------------------------------ *)
(* Test synthesis                                                      *)
(* ------------------------------------------------------------------ *)

important_params ==
    << "search", "current_page", "limit", "status", "start_date", "end_date",
       "page_size", "time_type", "pool_type", "is_rejected" >>

\* the value above which create_test_function_name cuts a parameter value, and
\* the number of characters it keeps
ParamValueMax == 20
ParamValueKept == 10

\* parts[-1] if parts[-1] else parts[-2] if len(parts) > 1 else "endpoint"
BaseName(endpoint) ==
    LET parts == Split(StripCh(endpoint, "/"), "/")
    IN  IF parts[Len(parts)] # "" THEN parts[Len(parts)]
        ELSE IF Len(parts) > 1 THEN parts[Len(parts) - 1]
        ELSE "endpoint"

RECURSIVE ParamSuffix(_, _)
\* the loop over important_params, from name i
ParamSuffix(params, i) ==
    IF i > Len(important_params) THEN ""
    ELSE LET param_name == important_params[i]
             has == \E j \in 1..Len(params) : params[j].k = param_name
             value == params[CHOOSE j \in 1..Len(params) : params[j].k = param_name].v
             text == ScalarToStr(value)
             cut == IF Len(text) > ParamValueMax
                    THEN SubSeq(text, 1, ParamValueKept) \o "..." ELSE text
         IN  (IF has /\ value.t # "none" /\ value # PyStr("")
              THEN "_" \o param_name \o "_" \o SubNonWord(cut) ELSE "")
             \o ParamSuffix(params, i + 1)

\* re.sub(r'\.[^.]+$', '', filename): the last extension removed
DropExtension(filename) ==
    LET dots == {i \in 1..Len(filename) : Ch(filename, i) = "."}
    IN  IF dots = {} \/ SetMax(dots) = Len(filename) THEN filename
        ELSE SubSeq(filename, 1, SetMax(dots) - 1)

\* body_suffix of the proxy capture generator: [err, text]; err is the
\* TypeError of re.sub on a filename that is no str
BodySuffix(request_body) ==
    IF ~Truthy(request_body) THEN [err |-> FALSE, text |-> ""]
    ELSE IF request_body.t = "dict" /\ HasKey(request_body, "field_name") THEN
        LET filename == IF HasKey(request_body, "filename")
                        THEN DictGet(request_body, "filename") ELSE PyStr("file")
        IN  IF filename.t # "str" THEN [err |-> TRUE, text |-> ""]
            ELSE [err |-> FALSE,
                  text |-> "_upload_" \o SubNonWord(DropExtension(filename.s))]
    ELSE IF request_body.t = "dict" THEN
        LET keys == DictKeys(request_body)
        IN  [err |-> FALSE,
             text |-> "_with_" \o Join(SubSeq(keys, 1, IF Len(keys) < 2 THEN Len(keys) ELSE 2), "_")]
    ELSE [err |-> FALSE, text |-> ""]

\* APITestGenerator.create_test_function_name; the recorder capture generator
\* has no request_body argument and no body suffix
create_test_function_name(gen_, endpoint, params, request_body) ==
    LET body_suffix == IF gen_ = "mitm" THEN BodySuffix(request_body)
                       ELSE [err |-> FALSE, text |-> ""]
        significant == ParamSuffix(params, 1)
        param_suffix == IF Len(params) > 0 /\ significant = "" THEN "_with_params"
                        ELSE significant
        func_name == SquashUnderscores(
                         Lower(SubNonAlnum(BaseName(endpoint) \o body_suffix.text \o param_suffix)), 1)
    IN  [err |-> body_suffix.err, name |-> "test_" \o func_name]

\* the lines of pformat's text, each without its first character, a space or not
StripIndentAlways(formatted) ==
    LET lines == Split(formatted, "\n")
    IN  Join([i \in 1..Len(lines) |-> From(lines[i], 2)], "\n")

\* the lines of pformat's text, each without its first space
StripIndent(formatted) ==
    LET lines == Split(formatted, "\n")
    IN  Join([i \in 1..Len(lines) |->
                IF StartsWithAt(lines[i], " ", 1) THEN From(lines[i], 2) ELSE lines[i]],
             "\n")

\* text.replace('"', '\\"').replace('\n', '\\n').replace('\r', '\\r')
EscapeText(text) == ReplaceAll(ReplaceAll(ReplaceAll(text, "\"", "\\\""), "\n", "\\n"), "\r", "\\r")

\* APITestGenerator.generate_expected_data: the source text after `expected = `
generate_expected_data(gen_, sample) ==
    IF gen_ = "mitm" /\ sample.response_is_file THEN
        (IF sample.response_data.t = "str"
         THEN "\"" \o EscapeText(sample.response_data.s) \o "\""
         ELSE Render(sample.response_data, "py", FALSE))
    ELSE StripIndent(Render(sample.response_data, "py", TRUE))

\* HTTPStatus.OK, the status every generated test asserts
HTTPStatusOK == 200

\* how the generated call passes the body: files=, json=, content= or nothing
CallKind(gen_, request_body) ==
    IF gen_ # "mitm" THEN "none"
    ELSE IF request_body.t = "dict" /\ HasKey(request_body, "field_name") THEN "files"
    ELSE IF request_body.t = "dict" THEN "json"
    ELSE IF request_body.t = "str" THEN "content"
    ELSE "none"

\* APITestGenerator.generate_test_function: what the text of the test function
\* says, field by field.  err is an exception raised while the text is built
generate_test_function(gen_, test_data) ==
    LET sample == test_data.samples[1]
        func_name == create_test_function_name(gen_, test_data.endpoint, test_data.params,
                                               test_data.request_body)
    IN  [err |-> func_name.err,
         name |-> func_name.name,
         method |-> Lower(test_data.method),
         url_path |-> test_data.endpoint,
         params |-> test_data.params,
         call |-> CallKind(gen_, test_data.request_body),
         request_body |-> test_data.request_body,
         expected |-> generate_expected_data(gen_, sample),
         status_assert |-> HTTPStatusOK,
         file_assert |-> gen_ = "mitm" /\ sample.response_is_file,
         src |-> sample.src]

(* ------------------------------------------------------------------ *)
(* Partition into resources and writing                                *)
(* ------------------------------------------------------------------ *)

RECURSIVE FirstAfterApi(_, _)
\* the loop of the proxy capture generator over parts: the part after the first
\* 'api' that has a part after it, "" when there is none
FirstAfterApi(parts, i) ==
    IF i > Len(parts) THEN ""
    ELSE IF parts[i] = "api" /\ i + 1 <= Len(parts) THEN parts[i + 1]
    ELSE FirstAfterApi(parts, i + 1)

HasApiPart(parts) == \E i \in 1..Len(parts) : parts[i] = "api" /\ i + 1 <= Len(parts)

StopSegments == {"api", "v1", "v2", "v3", "v4", "v5", "workspace", "new_operplan", "perspective_plan"}

\* the resource of an endpoint, before it is sanitized
RawResource(gen_, endpoint) ==
    LET parts == Split(StripCh(endpoint, "/"), "/")
        meaningful == {i \in 3..Len(parts) : parts[i] # "" /\ parts[i] \notin StopSegments}
    IN  IF gen_ = "mitm" THEN
            (IF Len(parts) >= 2
             THEN (IF HasApiPart(parts) THEN FirstAfterApi(parts, 1) ELSE parts[2])
             ELSE "other")
        ELSE IF Len(parts) >= 3 THEN
            (IF meaningful # {} THEN parts[SetMin(meaningful)]
             ELSE IF parts[Len(parts)] # "" THEN parts[Len(parts)]
             ELSE parts[Len(parts) - 1])
        ELSE IF Len(parts) = 2 THEN parts[2]
        ELSE "other"

\* the resource name without the replacement of an empty name
ResourceOfUnchecked(gen_, endpoint) == SubNonAlnum(RawResource(gen_, endpoint))

\* the resource name of an endpoint
ResourceOf(gen_, endpoint) ==
    LET resource == SubNonAlnum(RawResource(gen_, endpoint))
    IN  IF resource = "" THEN "unknown_resource" ELSE resource

RECURSIVE OrganizeLoop(_, _, _, _)
\* the loop of organize_tests_by_resource over endpoint_tests, from group i
OrganizeLoop(gen_, groups, i, resource_tests_) ==
    IF i > Len(groups) THEN resource_tests_
    ELSE LET resource == ResourceOf(gen_, groups[i].endpoint)
             has == \E j \in 1..Len(resource_tests_) : resource_tests_[j].resource = resource
             at == CHOOSE j \in 1..Len(resource_tests_) : resource_tests_[j].resource = resource
         IN  OrganizeLoop(gen_, groups, i + 1,
                 IF has THEN [resource_tests_ EXCEPT ![at].tests = Append(@, groups[i])]
                 ELSE Append(resource_tests_, [resource |-> resource, tests |-> <<groups[i]>>]))

\* APITestGenerator.organize_tests_by_resource
organize_tests_by_resource(gen_, groups) == OrganizeLoop(gen_, groups, 1, <<>>)

\* the order of two sort keys of save_test_file: (endpoint, bool(request_body),
\* sorted params) in the proxy capture generator, (endpoint, sorted params) in
\* the recorder capture generator: "lt", "eq", "gt" or "err"
SortKeyCompare(gen_, x, y) ==
    IF x.endpoint # y.endpoint
    THEN (IF StrLess(x.endpoint, y.endpoint, 1) THEN "lt" ELSE "gt")
    ELSE IF gen_ = "mitm" /\ Truthy(x.request_body) # Truthy(y.request_body)
    THEN (IF Truthy(y.request_body) THEN "lt" ELSE "gt")
    ELSE ItemsCompare(SortedItems(x.params), SortedItems(y.params), 1)

RECURSIVE InsertBeforeEqual(_, _, _)
\* x put into the sorted sequence before every element that is not smaller: a
\* sort that is not stable
InsertBeforeEqual(gen_, sorted, x) ==
    IF Len(sorted) = 0 THEN <<x>>
    ELSE IF SortKeyCompare(gen_, x, Head(sorted)) \in {"lt", "eq"} THEN <<x>> \o sorted
    ELSE <<Head(sorted)>> \o InsertBeforeEqual(gen_, Tail(sorted), x)

RECURSIVE InsertByKey(_, _, _)
\* x put into the sorted sequence after every element that is not greater
InsertByKey(gen_, sorted, x) ==
    IF Len(sorted) = 0 THEN <<x>>
    ELSE IF SortKeyCompare(gen_, x, Head(sorted)) = "lt" THEN <<x>> \o sorted
    ELSE <<Head(sorted)>> \o InsertByKey(gen_, Tail(sorted), x)

RECURSIVE SortTests(_, _)
\* sorted(tests, key=...): a stable sort
SortTests(gen_, tests) ==
    IF Len(tests) = 0 THEN <<>>
    ELSE InsertByKey(gen_, SortTests(gen_, SubSeq(tests, 1, Len(tests) - 1)), tests[Len(tests)])

\* sorted raises TypeError: two keys of the list cannot be ordered.  No element
\* lies between two such keys, so every sort compares them
SortRaises(gen_, tests) ==
    \E i, j \in 1..Len(tests) : SortKeyCompare(gen_, tests[i], tests[j]) = "err"

\* the maximum length of a resource name used in the file name
ResourceNameMax == 30

\* APITestGenerator.save_test_file: [raised, file]; the file holds the test
\* functions in sorted order
save_test_file(gen_, resource, tests) ==
    LET tests_sorted == SortTests(gen_, tests)
        test_functions == [i \in 1..Len(tests) |-> generate_test_function(gen_, tests_sorted[i])]
    IN  IF SortRaises(gen_, tests) THEN [raised |-> TRUE, file |-> <<>>]
        ELSE IF \E i \in 1..Len(tests) : test_functions[i].err
            THEN [raised |-> TRUE, file |-> <<>>]
        ELSE [raised |-> FALSE,
              file |-> << [resource |-> resource,
                           file_name |-> IF Len(resource) > ResourceNameMax THEN "test.py"
                                         ELSE "test_" \o resource \o ".py",
                           test_functions |-> test_functions] >>]

(* ------------------------------------------------------------------ *)
(* Capture files the generators are run on                             *)
(* ------------------------------------------------------------------ *)

JsonType == <<Header("Content-Type", "application/json")>>

\* a multipart body with one file part, as an HTTP client writes it
MultipartBody(boundary, name, filename, content_type, payload) ==
    "--" \o boundary \o "\r\n"
    \o "Content-Disposition: form-data; name=\"" \o name \o "\"; filename=\"" \o filename \o "\"\r\n"
    \o "Content-Type: " \o content_type \o "\r\n\r\n"
    \o payload \o "\r\n--" \o boundary \o "--"

GreetBob == Capture("http://h/api/greetings?name=Bob", "GET", <<>>, "", 200, <<>>, "{\"m\": \"Bob\"}")

GreetAlice == Capture("http://h/api/greetings?name=Alice", "GET", <<>>, "", 200, <<>>, "{\"m\": \"Alice\"}")

OrderJson ==
    Capture("http://h/api/v1/orders", "POST", JsonType, "{\"b\": 1, \"a\": [true, null]}",
            201, <<>>, "{\"id\": 7, \"tags\": [\"x\"]}")

OrderEmptyJson == Capture("http://h/api/v1/orders", "POST", JsonType, "{}", 201, <<>>, "{\"id\": 8}")

OrderNoBody == Capture("http://h/api/v1/orders", "POST", <<>>, "", 404, <<>>, "{\"detail\": \"no\"}")

Upload ==
    Capture("http://h/api/files", "POST",
            <<Header("Content-Type", "multipart/form-data; boundary=B")>>,
            MultipartBody("B", "file", "a.txt", "text/plain", "HELLO"),
            200, <<>>, "{\"ok\": true}")

NoteText ==
    Capture("http://h/api/notes", "POST", <<Header("Content-Type", "text/plain")>>, "hello",
            200, <<>>, "not json")

PingEmpty == Capture("http://h/api/ping", "GET", <<>>, "", 200, <<>>, "")

ExportJson ==
    Capture("http://h/api/export", "POST", JsonType, "{\"fmt\": \"json\"}", 200,
            <<Header("content-disposition", "attachment; filename=\"e.json\""),
              Header("content-type", "application/json")>>,
            "{\"a\": 1}")

ItemsInt == Capture("http://h/api/items?x=1", "GET", <<>>, "", 200, <<>>, "[1]")

ItemsStr == Capture("http://h/api/items?x=abc", "GET", <<>>, "", 200, <<>>, "[]")

\* an element of the capture list that is a string, not an object
NotAnObject == [Capture("", "", <<>>, "", 0, <<>>, "") EXCEPT !.kind = "other"]

\* a flow recorded without its response
NoResponse == [GreetBob EXCEPT !.has_response = FALSE]

Samples ==
    { GreetBob, GreetAlice, OrderJson, OrderEmptyJson, OrderNoBody, Upload, NoteText,
      PingEmpty, ExportJson, ItemsInt, ItemsStr, NotAnObject, NoResponse }

\* the longest capture list
MaxBatch == 2

Batches == UNION {[1..n -> Samples] : n \in 0..MaxBatch}

\* the file named on the command line: absent, not loadable as the capture
\* format (json.load raises, or the top level is no object or list), or a list
\* of records
InputFiles ==
    { [exists |-> FALSE, loads |-> FALSE, records |-> <<>>],
      [exists |-> TRUE, loads |-> FALSE, records |-> <<>>] }
    \cup { [exists |-> TRUE, loads |-> TRUE, records |-> r] : r \in Batches }

\* a download whose header name is written the way servers write it
DownloadUpper ==
    Capture("http://h/api/report", "GET", <<>>, "", 200,
            <<Header("Content-Disposition", "attachment; filename=\"r.csv\"")>>, "a,b")

\* one query, its keys in two orders
QueryAB == Capture("http://h/api/a-b?a=1&b=2", "GET", <<>>, "", 200, <<>>, "{}")

QueryBA == Capture("http://h/api/a-b?b=2&a=1", "GET", <<>>, "", 200, <<>>, "{}")

\* one JSON object, its keys in two orders at both depths
ObjectAB ==
    Capture("http://h/api/a-b?a=1&b=2", "POST", JsonType, "{\"a\": 1, \"b\": {\"c\": 1, \"d\": 2}}",
            200, <<>>, "{}")

ObjectBA ==
    Capture("http://h/api/a-b?a=1&b=2", "POST", JsonType, "{\"b\": {\"d\": 2, \"c\": 1}, \"a\": 1}",
            200, <<>>, "{}")

\* one JSON array of an object, the keys of the object in two orders
ArrayAB ==
    Capture("http://h/api/a-b?a=1&b=2", "POST", JsonType, "[{\"a\": 1, \"b\": 2}]", 200, <<>>, "{}")

ArrayBA ==
    Capture("http://h/api/a-b?a=1&b=2", "POST", JsonType, "[{\"b\": 2, \"a\": 1}]", 200, <<>>, "{}")

\* one parameter that coerces to an Int and to a Bool
FlagInt == Capture("http://h/api/flags?x=1", "GET", <<>>, "", 200, <<>>, "{}")

FlagBool == Capture("http://h/api/flags?x=true", "GET", <<>>, "", 200, <<>>, "{}")

\* the paths of the resource naming scenario
OrdersVersioned == Capture("http://h/api/v1/orders/123", "GET", <<>>, "", 200, <<>>, "{}")

OrdersPlain == Capture("http://h/api/orders/123", "GET", <<>>, "", 200, <<>>, "{}")

\* a path with an empty segment after api
EmptySegment == Capture("http://h/api//x", "GET", <<>>, "", 200, <<>>, "{}")

KeySamples ==
    { DownloadUpper, QueryAB, QueryBA, ObjectAB, ObjectBA, ArrayAB, ArrayBA,
      FlagInt, FlagBool, OrdersVersioned, OrdersPlain, EmptySegment }

KeyBatches == UNION {[1..n -> KeySamples] : n \in 0..MaxBatch}

\* capture files that load, with records of KeySamples
KeyInputFiles == { [exists |-> TRUE, loads |-> TRUE, records |-> r] : r \in KeyBatches }

\* the characters of the query values tried
ValueAlphabet == <<"0", "7", ".", "a", "²">>

\* the longest query value made of ValueAlphabet
MaxValueLen == 3

RECURSIVE Words(_)
\* the strings of length n over ValueAlphabet
Words(n) ==
    IF n = 0 THEN {""}
    ELSE {w \o ValueAlphabet[i] : w \in Words(n - 1), i \in 1..Len(ValueAlphabet)}

\* the coercion scenarios and their neighbours
NamedValues ==
    { "null", "NULL", "Null", "nul", "nulls", "true", "True", "TRUE", "false", "fAlse",
      "falsey", "42", "007", "3.14", "3.1.4", "abc", "-5", "+5", "1e5", "5.", ".5", "1.²" }

QueryValues == NamedValues \cup UNION {Words(n) : n \in 0..MaxValueLen}

\* one request with the query value as its parameter v
ValueCapture(value) == Capture("http://h/api/q?v=" \o value, "GET", <<>>, "", 200, <<>>, "{}")

\* capture files of one request each, one for every query value
ValueInputFiles ==
    { [exists |-> TRUE, loads |-> TRUE, records |-> <<ValueCapture(value)>>] : value \in QueryValues }

\* the query of QueryAB in the other order, answered differently
QueryBALater == Capture("http://h/api/a-b?b=2&a=1", "GET", <<>>, "", 200, <<>>, "{\"n\": 2}")

\* the request of QueryAB recorded without its response
QueryABNoResponse == [QueryAB EXCEPT !.has_response = FALSE]

\* records that share a signature and differ in what they say
CanonSamples == { QueryAB, QueryBALater, QueryABNoResponse, ObjectAB, ObjectBA }

CanonBatches == UNION {[1..n -> CanonSamples] : n \in 0..MaxBatch}

\* capture files that load, with records of CanonSamples
CanonInputFiles == { [exists |-> TRUE, loads |-> TRUE, records |-> r] : r \in CanonBatches }

\* a path of one segment, outside /api
Health == Capture("http://h/health", "GET", <<>>, "", 200, <<>>, "{}")

\* a path whose last segment begins with a character that is no letter or digit
NegativeId == Capture("http://h/api/items/-1", "GET", <<>>, "", 200, <<>>, "{}")

\* upper case and a dot in the path, two parameters of important_params
UsersSearch ==
    Capture("http://h/api/Users.List?search=A%20B&limit=10", "GET", <<>>, "", 200, <<>>, "{}")

\* a parameter value longer than ParamValueMax
LongSearch ==
    Capture("http://h/api/find?search=abcdefghijklmnopqrstuvwxy", "GET", <<>>, "", 200, <<>>, "{}")

\* a body text that names its own content type and boundary before its one
\* part, whose Content-Disposition line has the attributes attrs
MarkedMultipart(attrs, content_type, payload) ==
    "Content-Type: multipart/form-data; boundary=B\r\n\r\n--B\r\n"
    \o "Content-Disposition: form-data" \o attrs \o "\r\n"
    \o "Content-Type: " \o content_type \o "\r\n\r\n"
    \o payload \o "\r\n--B--"

\* a request that uploads the body text body
UploadOf(body) ==
    Capture("http://h/api/files", "POST",
            <<Header("Content-Type", "multipart/form-data; boundary=B")>>, body, 200, <<>>, "{}")

\* an uploaded file whose name has upper case, a space and two dots
UploadReport ==
    UploadOf(MarkedMultipart("; name=\"doc\"; filename=\"My Report.v2.PDF\"", "application/pdf", "PDF"))

\* one file part with its attributes in the usual order, in the other order,
\* and with the filename alone
UploadNameFirst == UploadOf(MarkedMultipart("; name=\"doc\"; filename=\"a.txt\"", "text/plain", "HELLO"))

UploadFilenameFirst == UploadOf(MarkedMultipart("; filename=\"a.txt\"; name=\"doc\"", "text/plain", "HELLO"))

UploadFilenameOnly == UploadOf(MarkedMultipart("; filename=\"a.txt\"", "text/plain", "HELLO"))

\* uploads, and the upload whose body text does not name multipart/form-data
PartSamples == { UploadNameFirst, UploadFilenameFirst, UploadFilenameOnly, Upload }

PartBatches == UNION {[1..n -> PartSamples] : n \in 0..MaxBatch}

\* capture files that load, with records of PartSamples
PartInputFiles == { [exists |-> TRUE, loads |-> TRUE, records |-> r] : r \in PartBatches }

\* paths, parameters and bodies that exercise the naming rules
NameSamples == { Health, NegativeId, UsersSearch, LongSearch, OrderJson, UploadReport }

NameBatches == UNION {[1..n -> NameSamples] : n \in 0..MaxBatch}

\* capture files that load, with records of NameSamples
NameInputFiles == { [exists |-> TRUE, loads |-> TRUE, records |-> r] : r \in NameBatches }

(* ------------------------------------------------------------------ *)
(* The run of a generator: main() and APITestGenerator.run()           *)
(* ------------------------------------------------------------------ *)

VARIABLES
    gen,             \* which generator runs: "mitm" or "pw"
    file,            \* the input file
    pc,              \* "main", "load", "group", "write", "exit"
    transactions,    \* self.transactions / self.api_logs
    idx,             \* the record the grouping loop is at
    endpoint_tests,  \* self.endpoint_tests, in insertion order
    resource_tests,  \* resource_tests of run(), in insertion order
    widx,            \* the resource the writing loop is at
    files,           \* the files written
    exit_code,       \* the exit status of the process, NotExited while it runs
    recorder         \* the SimpleAPIRecorder object and its handlers in flight

vars == <<gen, file, pc, transactions, idx, endpoint_tests, resource_tests, widx, files, exit_code, recorder>>

\* the most responses the page emits and the most commands typed
MaxResponses == 2

MaxCommands == 3

\* SimpleAPIRecorder.__init__: nothing captured, recording off, an empty
\* command queue; no response has arrived, no command has been typed
NewRecorder ==
    [captured_requests |-> <<>>, is_recording |-> FALSE, should_exit |-> FALSE,
     command_queue |-> <<>>, typed |-> 0, saved |-> <<>>,
     handlers |-> [h \in 1..MaxResponses |-> "pending"]]

NotExited == 0 - 1

Init ==
    /\ gen \in {"mitm", "pw"}
    /\ file \in InputFiles
    /\ pc = "main"
    /\ transactions = <<>>
    /\ idx = 1
    /\ endpoint_tests = <<>>
    /\ resource_tests = <<>>
    /\ widx = 1
    /\ files = <<>>
    /\ exit_code = NotExited
    /\ recorder = NewRecorder

Exit(code) == pc' = "exit" /\ exit_code' = code

\* main(): sys.exit(1) when the file does not exist, else run()
Main ==
    /\ pc = "main"
    /\ IF file.exists THEN pc' = "load" /\ exit_code' = exit_code ELSE Exit(1)
    /\ UNCHANGED <<recorder, gen, file, transactions, idx, endpoint_tests, resource_tests, widx, files>>

\* load_json_data(), and in the proxy capture generator the test of run() for
\* an empty list, which returns
LoadJsonData ==
    /\ pc = "load"
    /\ IF ~file.loads THEN Exit(1) /\ transactions' = transactions
       ELSE /\ transactions' = file.records
            /\ IF gen = "mitm" /\ Len(file.records) = 0 THEN Exit(0)
               ELSE pc' = "group" /\ exit_code' = exit_code
    /\ UNCHANGED <<recorder, gen, file, idx, endpoint_tests, resource_tests, widx, files>>

extract_api_info(gen_, cap, src) ==
    IF gen_ = "mitm" THEN mitm_extract_api_info(cap, src) ELSE pw_extract_api_info(cap, src)

\* one iteration of the loop of group_by_endpoint_and_params
GroupStep ==
    /\ pc = "group"
    /\ idx <= Len(transactions)
    /\ LET r == extract_api_info(gen, transactions[idx], idx)
       IN  IF r.outcome = "raise"
           THEN Exit(1) /\ UNCHANGED <<idx, endpoint_tests>>
           ELSE /\ idx' = idx + 1
                /\ endpoint_tests' = IF r.outcome = "ok"
                                     THEN AddToGroups(gen, endpoint_tests, r.info)
                                     ELSE endpoint_tests
                /\ UNCHANGED <<pc, exit_code>>
    /\ UNCHANGED <<recorder, gen, file, transactions, resource_tests, widx, files>>

\* the end of the grouping loop: run() returns when there is no group, else it
\* partitions the groups
GroupDone ==
    /\ pc = "group"
    /\ idx > Len(transactions)
    /\ IF Len(endpoint_tests) = 0
       THEN Exit(0) /\ resource_tests' = resource_tests
       ELSE /\ resource_tests' = organize_tests_by_resource(gen, endpoint_tests)
            /\ pc' = "write"
            /\ exit_code' = exit_code
    /\ UNCHANGED <<recorder, gen, file, transactions, idx, endpoint_tests, widx, files>>

\* one iteration of the writing loop of run(): an exception of save_test_file
\* is caught and the resource gets no file
WriteStep ==
    /\ pc = "write"
    /\ widx <= Len(resource_tests)
    /\ files' = files \o save_test_file(gen, resource_tests[widx].resource,
                                       resource_tests[widx].tests).file
    /\ widx' = widx + 1
    /\ UNCHANGED <<recorder, gen, file, pc, transactions, idx, endpoint_tests, resource_tests, exit_code>>

\* the end of run(): the process ends with status 0
WriteDone ==
    /\ pc = "write"
    /\ widx > Len(resource_tests)
    /\ Exit(0)
    /\ UNCHANGED <<recorder, gen, file, transactions, idx, endpoint_tests, resource_tests, widx, files>>

Next == Main \/ LoadJsonData \/ GroupStep \/ GroupDone \/ WriteStep \/ WriteDone

Spec == Init /\ [][Next]_vars

RECURSIVE GroupRecords(_, _, _, _)
\* group_by_endpoint_and_params on a list of records none of which makes
\* extract_api_info raise: the groups after the records from position i on
GroupRecords(gen_, records, i, groups) ==
    IF i > Len(records) THEN groups
    ELSE LET r == extract_api_info(gen_, records[i], i)
         IN  GroupRecords(gen_, records, i + 1,
                          IF r.outcome = "ok" THEN AddToGroups(gen_, groups, r.info) ELSE groups)

RECURSIVE WriteAll(_, _, _)
\* the writing loop of run() from resource i on: the files written
WriteAll(gen_, resource_tests_, i) ==
    IF i > Len(resource_tests_) THEN <<>>
    ELSE save_test_file(gen_, resource_tests_[i].resource, resource_tests_[i].tests).file
         \o WriteAll(gen_, resource_tests_, i + 1)

\* the files run() writes for a list of records none of which makes
\* extract_api_info raise
FilesOf(gen_, records) ==
    WriteAll(gen_, organize_tests_by_resource(gen_, GroupRecords(gen_, records, 1, <<>>)), 1)

\* the state before main() runs on the capture file input
InitWith(input) ==
    /\ gen \in {"mitm", "pw"}
    /\ file = input
    /\ pc = "main"
    /\ transactions = <<>>
    /\ idx = 1
    /\ endpoint_tests = <<>>
    /\ resource_tests = <<>>
    /\ widx = 1
    /\ files = <<>>
    /\ exit_code = NotExited
    /\ recorder = NewRecorder

\* the runs on the capture files of KeySamples
KeyInit == \E input \in KeyInputFiles : InitWith(input)

KeySpec == KeyInit /\ [][Next]_vars

\* the runs on the capture files of CanonSamples
CanonInit == \E input \in CanonInputFiles : InitWith(input)

CanonSpec == CanonInit /\ [][Next]_vars

\* the runs on the capture files of NameSamples
NameInit == \E input \in NameInputFiles : InitWith(input)

NameSpec == NameInit /\ [][Next]_vars

\* the runs on the capture files of PartSamples
PartInit == \E input \in PartInputFiles : InitWith(input)

PartSpec == PartInit /\ [][Next]_vars

\* the runs on one request with one query value
ValueInit == \E input \in ValueInputFiles : InitWith(input)

ValueSpec == ValueInit /\ [][Next]_vars

(* ------------------------------------------------------------------ *)
(* The converter of proxy logs: mitm_parser.py                         *)
(* ------------------------------------------------------------------ *)

\* U+FFFD, the character decode(errors='replace') puts for bytes that are no
\* UTF-8
ReplacementChar == 65533

\* a continuation byte, and the lead byte of a sequence of two bytes
IsContinuation(b) == b >= 128 /\ b <= 191

IsLeadOfTwo(b) == b >= 194 /\ b <= 223

RECURSIVE Utf8Replace(_, _)
\* raw.decode('utf-8', errors='replace') from byte i on, as code points.  The
\* bytes of the model are below 224 or are 255, so a sequence has one or two
\* bytes and every other byte is replaced
Utf8Replace(raw, i) ==
    IF i > Len(raw) THEN <<>>
    ELSE IF raw[i] < 128 THEN <<raw[i]>> \o Utf8Replace(raw, i + 1)
    ELSE IF IsLeadOfTwo(raw[i]) /\ i + 1 <= Len(raw) /\ IsContinuation(raw[i + 1])
        THEN <<(raw[i] - 192) * 64 + (raw[i + 1] - 128)>> \o Utf8Replace(raw, i + 2)
    ELSE <<ReplacementChar>> \o Utf8Replace(raw, i + 1)

\* the bytes are well-formed UTF-8: decoding replaces nothing
IsValidUtf8(raw) ==
    \A k \in 1..Len(Utf8Replace(raw, 1)) : Utf8Replace(raw, 1)[k] # ReplacementChar

\* whether raw.decode('utf-8', errors=errors) raises UnicodeDecodeError: only
\* the strict handler raises
DecodeRaises(raw, errors) == errors = "strict" /\ ~IsValidUtf8(raw)

RECURSIVE BytesB64(_)
\* base64.b64encode(raw).decode('ascii')
BytesB64(raw) ==
    IF Len(raw) = 0 THEN ""
    ELSE LET a == raw[1]
             b == IF Len(raw) >= 2 THEN raw[2] ELSE 0
             c == IF Len(raw) >= 3 THEN raw[3] ELSE 0
         IN  B64(a \div 4)
             \o B64((a % 4) * 16 + b \div 16)
             \o (IF Len(raw) >= 2 THEN B64((b % 16) * 4 + c \div 64) ELSE "=")
             \o (IF Len(raw) >= 3 THEN B64(c % 64) ELSE "=")
             \o (IF Len(raw) > 3 THEN BytesB64(SubSeq(raw, 4, Len(raw))) ELSE "")

\* the body keys parse_mitm_file adds to request_info or response_info for
\* raw_content: none for an empty body, else body_text, or body_base64 when
\* the decoding raised, and body_size
BodyInfo(raw) ==
    IF Len(raw) = 0
    THEN [keys |-> {}, body_text |-> <<>>, body_base64 |-> "", body_size |-> 0]
    ELSE IF DecodeRaises(raw, "replace")
    THEN [keys |-> {"body_base64", "body_size"}, body_text |-> <<>>,
          body_base64 |-> BytesB64(raw), body_size |-> Len(raw)]
    ELSE [keys |-> {"body_text", "body_size"}, body_text |-> Utf8Replace(raw, 1),
          body_base64 |-> "", body_size |-> Len(raw)]

\* the transaction made of flow number i (counted from 0, as enumerate does)
TransactionOf(flow, i) ==
    [id |-> i, request_raw |-> flow.request_raw, response_raw |-> flow.response_raw,
     request |-> BodyInfo(flow.request_raw),
     has_response |-> flow.has_response,
     response |-> IF flow.has_response THEN BodyInfo(flow.response_raw) ELSE BodyInfo(<<>>)]

\* a flow of the log: an HTTP flow, a flow of another kind, or the place where
\* the reader fails
Flow(kind, request_raw, has_response, response_raw) ==
    [kind |-> kind, request_raw |-> request_raw, has_response |-> has_response,
     response_raw |-> response_raw]

\* bodies: none, Hi, e acute, the first bytes of a JPEG file, a sequence cut
\* short, a stray continuation byte
RawSamples == { <<>>, <<72, 105>>, <<195, 169>>, <<255, 216>>, <<195>>, <<65, 169>> }

FlowSamples ==
    {Flow("http", raw, FALSE, <<>>) : raw \in RawSamples}
    \cup {Flow("http", <<>>, TRUE, raw) : raw \in RawSamples}
    \cup {Flow("other", <<>>, FALSE, <<>>), Flow("corrupt", <<>>, FALSE, <<>>)}

FlowBatches == UNION {[1..n -> FlowSamples] : n \in 0..MaxBatch}

\* the log named on the command line: absent, or a sequence of flows
FlowFiles ==
    { [exists |-> FALSE, loads |-> FALSE, records |-> <<>>] }
    \cup { [exists |-> TRUE, loads |-> TRUE, records |-> r] : r \in FlowBatches }

\* the state before main() of the converter runs
ParserInit ==
    /\ gen = "mitm_parser"
    /\ file \in FlowFiles
    /\ pc = "main"
    /\ transactions = <<>>
    /\ idx = 1
    /\ endpoint_tests = <<>>
    /\ resource_tests = <<>>
    /\ widx = 1
    /\ files = <<>>
    /\ exit_code = NotExited
    /\ recorder = NewRecorder

\* parse_mitm_file up to its loop: a missing file gives the empty list
ParserOpen ==
    /\ gen = "mitm_parser"
    /\ pc = "main"
    /\ pc' = IF file.exists THEN "parse" ELSE "save"
    /\ UNCHANGED <<recorder, gen, file, transactions, idx, endpoint_tests, resource_tests, widx, files, exit_code>>

\* one iteration of the loop over flow_reader.stream(); an exception of the
\* reader ends the loop with the transactions made so far
ParseFlow ==
    /\ gen = "mitm_parser"
    /\ pc = "parse"
    /\ idx <= Len(file.records)
    /\ LET flow == file.records[idx]
       IN  IF flow.kind = "corrupt"
           THEN pc' = "save" /\ UNCHANGED <<idx, transactions>>
           ELSE /\ idx' = idx + 1
                /\ transactions' = IF flow.kind = "http"
                                    THEN Append(transactions, TransactionOf(flow, idx - 1))
                                    ELSE transactions
                /\ pc' = pc
    /\ UNCHANGED <<recorder, gen, file, endpoint_tests, resource_tests, widx, files, exit_code>>

\* the end of the stream
ParseEnd ==
    /\ gen = "mitm_parser"
    /\ pc = "parse"
    /\ idx > Len(file.records)
    /\ pc' = "save"
    /\ UNCHANGED <<recorder, gen, file, transactions, idx, endpoint_tests, resource_tests, widx, files, exit_code>>

\* main() after parse_mitm_file: sys.exit(1) without transactions, else
\* save_to_json writes them
SaveToJson ==
    /\ gen = "mitm_parser"
    /\ pc = "save"
    /\ IF Len(transactions) = 0 THEN Exit(1) /\ files' = files
       ELSE Exit(0) /\ files' = <<[transactions |-> transactions]>>
    /\ UNCHANGED <<recorder, gen, file, transactions, idx, endpoint_tests, resource_tests, widx>>

ParserNext == ParserOpen \/ ParseFlow \/ ParseEnd \/ SaveToJson

ParserSpec == ParserInit /\ [][ParserNext]_vars

(* ------------------------------------------------------------------ *)
(* The recorder: api_recorder.py                                       *)
(* ------------------------------------------------------------------ *)

\* the lines typed on the console
Commands == {"start", "stop", "save", "exit", "help"}

\* the places where intercept_response is suspended: the await of
\* response.headers_array(), of request.headers_array(), of response.text()
\* or response.body()
Awaits == <<"await_response_headers", "await_request_headers", "await_body">>

\* _process_command on the recorder r
ProcessCommand(r, cmd) ==
    IF cmd = "exit" THEN [r EXCEPT !.should_exit = TRUE]
    ELSE IF cmd = "start" THEN [r EXCEPT !.is_recording = TRUE]
    ELSE IF cmd = "stop" THEN [r EXCEPT !.is_recording = FALSE]
    ELSE IF cmd = "save" /\ Len(r.captured_requests) > 0
        THEN [r EXCEPT !.saved = Append(@, r.captured_requests)]
    ELSE r

RECURSIVE ProcessAll(_, _)
\* the loop of _process_queued_commands over the queue cmds: no command
\* awaits, so the loop runs to the empty queue without a suspension
ProcessAll(r, cmds) ==
    IF Len(cmds) = 0 THEN r ELSE ProcessAll(ProcessCommand(r, Head(cmds)), Tail(cmds))

\* the state before start() runs
RecorderInit ==
    /\ gen = "recorder"
    /\ file = [exists |-> FALSE, loads |-> FALSE, records |-> <<>>]
    /\ pc = "recorder"
    /\ transactions = <<>>
    /\ idx = 1
    /\ endpoint_tests = <<>>
    /\ resource_tests = <<>>
    /\ widx = 1
    /\ files = <<>>
    /\ exit_code = NotExited
    /\ recorder = NewRecorder

\* _read_commands, in its own thread: a typed line is put into the queue
ReadCommand ==
    /\ gen = "recorder"
    /\ ~recorder.should_exit
    /\ recorder.typed < MaxCommands
    /\ \E cmd \in Commands :
          recorder' = [recorder EXCEPT !.command_queue = Append(@, cmd), !.typed = @ + 1]
    /\ UNCHANGED <<gen, file, pc, transactions, idx, endpoint_tests, resource_tests, widx, files, exit_code>>

\* one round of the loop of start(): _process_queued_commands
ProcessQueuedCommands ==
    /\ gen = "recorder"
    /\ ~recorder.should_exit
    /\ Len(recorder.command_queue) > 0
    /\ recorder' = [ProcessAll(recorder, recorder.command_queue) EXCEPT !.command_queue = <<>>]
    /\ UNCHANGED <<gen, file, pc, transactions, idx, endpoint_tests, resource_tests, widx, files, exit_code>>

\* the page emits a response: intercept_response runs to its first await, or
\* returns at once while recording is off
InterceptResponse ==
    /\ gen = "recorder"
    /\ ~recorder.should_exit
    /\ \E h \in 1..MaxResponses :
          /\ recorder.handlers[h] = "pending"
          /\ recorder' = [recorder EXCEPT !.handlers[h] =
                             IF recorder.is_recording THEN Awaits[1] ELSE "returned"]
    /\ UNCHANGED <<gen, file, pc, transactions, idx, endpoint_tests, resource_tests, widx, files, exit_code>>

\* intercept_response resumes from an await.  An exception of the two header
\* awaits ends the handler; one of the body await is caught and the capture is
\* appended with the body None.  After the last await the capture is appended
ResumeHandler ==
    /\ gen = "recorder"
    /\ \E h \in 1..MaxResponses : \E raised \in BOOLEAN :
          \E at \in 1..Len(Awaits) :
              /\ recorder.handlers[h] = Awaits[at]
              /\ recorder' =
                    IF raised /\ at < Len(Awaits)
                    THEN [recorder EXCEPT !.handlers[h] = "failed"]
                    ELSE IF at < Len(Awaits)
                    THEN [recorder EXCEPT !.handlers[h] = Awaits[at + 1]]
                    ELSE [recorder EXCEPT !.handlers[h] = "captured",
                                          !.captured_requests =
                                              Append(@, [response |-> h, has_body |-> ~raised])]
    /\ UNCHANGED <<gen, file, pc, transactions, idx, endpoint_tests, resource_tests, widx, files, exit_code>>

RecorderNext == ReadCommand \/ ProcessQueuedCommands \/ InterceptResponse \/ ResumeHandler

RecorderSpec == RecorderInit /\ [][RecorderNext]_vars

(* ------------------------------------------------------------------ *)
(* Properties                                                          *)
(* ------------------------------------------------------------------ *)

\* the capture record a normalized transaction or a test was made from
CaptureOf(src) == transactions[src]

\* the records normalization does not fail on: objects that have a response
Processable(cap) == cap.kind = "object" /\ cap.has_response

AllGroups == {endpoint_tests[k] : k \in 1..Len(endpoint_tests)}

\* every sample of every group
AllSamples == UNION {{g.samples[i] : i \in 1..Len(g.samples)} : g \in AllGroups}

\* every test function of every written file
AllTests == UNION {{files[k].test_functions[i] : i \in 1..Len(files[k].test_functions)} : k \in 1..Len(files)}

\* the group a record went into (0 when it went into none)
GroupOfRecord(src) ==
    IF \E k \in 1..Len(endpoint_tests) : \E i \in 1..Len(endpoint_tests[k].samples) :
            endpoint_tests[k].samples[i].src = src
    THEN CHOOSE k \in 1..Len(endpoint_tests) : \E i \in 1..Len(endpoint_tests[k].samples) :
            endpoint_tests[k].samples[i].src = src
    ELSE 0

RequestContentType(cap) == HeaderGet(cap.req_headers, "Content-Type", "")

\* the body signature the data model gives a request: its class comes from the
\* Content-Type header, and only a request without a body has none
ClaimedBodyKind(cap) ==
    IF cap.req_body = "" THEN "none"
    ELSE IF Contains(RequestContentType(cap), "multipart/form-data") THEN "file"
    ELSE IF Contains(RequestContentType(cap), "application/json") /\ json_loads(cap.req_body).ok
        THEN "json"
    ELSE "other"

\* C1: in the proxy capture generator two transactions are in the same group
\* if and only if they agree on path, method, key-sorted coerced query
\* parameters and body signature, and the body signature is None only for a
\* request without a body, ("file", ...) for an upload, ("json", canonical
\* sorted JSON) for a JSON body and ("other", raw string) otherwise.
C1_GroupingKey ==
    gen = "mitm" =>
        /\ \A x \in AllSamples, y \in AllSamples :
              (GroupOfRecord(x.src) = GroupOfRecord(y.src))
                  <=> KeyEq(group_key(gen, x), group_key(gen, y))
        /\ \A x \in AllSamples :
              LET cap == CaptureOf(x.src)
                  body_key == group_key(gen, x).body_key
              IN  /\ body_key.kind = ClaimedBodyKind(cap)
                  /\ body_key.kind = "json" =>
                        body_key.a = Render(json_loads(cap.req_body).v, "json", TRUE)
                  /\ body_key.kind = "other" => body_key.a = cap.req_body

\* C2: GET /api/greetings?name=Bob and GET /api/greetings?name=Alice have
\* different signatures, form two groups and yield two separate generated test
\* functions (two definitions of two names in the written module), not one.
C2_GreetingsTwoTests ==
    (/\ pc = "exit"
     /\ transactions \in {<<GreetBob, GreetAlice>>, <<GreetAlice, GreetBob>>})
    => /\ Len(endpoint_tests) = 2
       /\ ~KeyEq(endpoint_tests[1].key, endpoint_tests[2].key)
       /\ Len(files) = 1
       /\ Len(files[1].test_functions) = 2
       /\ Cardinality({t.name : t \in AllTests}) = 2

\* C3: within one resource, the test names synthesized for any two distinct
\* groups differ: no two test functions of one written file share a name.
C3_TestNamesUnique ==
    \A k \in 1..Len(files) :
        \A i, j \in 1..Len(files[k].test_functions) :
            i # j => files[k].test_functions[i].name # files[k].test_functions[j].name

\* C4: the status-code assertion of every generated test equals the response
\* status recorded in the canonical sample of its group.
C4_ExpectedStatus ==
    \A t \in AllTests : t.status_assert = CaptureOf(t.src).status

\* C5: a request with Content-Type multipart/form-data; boundary=B and a
\* well-formed body with one file part yields that part's field name, filename,
\* content type and payload, with is_binary false for a printable payload, and
\* not None.
C5_MultipartExtraction ==
    gen = "mitm" =>
        \A x \in AllSamples :
            LET cap == CaptureOf(x.src)
            IN  (/\ RequestContentType(cap) = "multipart/form-data; boundary=B"
                 /\ cap.req_body = MultipartBody("B", "file", "a.txt", "text/plain", "HELLO"))
                => /\ x.request_body # PyNone
                   /\ x.request_body = FileInfo("file", "a.txt", "text/plain", "HELLO")
                   /\ DictGet(x.request_body, "is_binary") = PyBool(FALSE)

\* C6: a record that cannot be processed is skipped and every other record of
\* the batch is still grouped: when the run is over, every processable record
\* of the loaded list is a member of a group.
C6_PerRecordIsolation ==
    (pc = "exit" /\ file.exists /\ file.loads)
    => \A i \in 1..Len(transactions) :
           Processable(transactions[i]) => GroupOfRecord(i) # 0

\* C7: the exit status is non-zero when the input file does not exist, when the
\* top-level JSON cannot be loaded and when the capture holds no usable
\* transaction, and is 0 in every other case.
C7_ExitStatus ==
    pc = "exit" =>
        ((exit_code # 0) <=>
            \/ ~file.exists
            \/ ~file.loads
            \/ \A i \in 1..Len(file.records) : ~Processable(file.records[i]))

\* C8: for every resource of the partition the writer produces exactly one
\* file, which holds one test function for every group of that resource,
\* whatever the kinds of the parameter values of the groups.
C8_SuiteComplete ==
    pc = "exit" =>
        \A r \in 1..Len(resource_tests) :
            LET written == {k \in 1..Len(files) : files[k].resource = resource_tests[r].resource}
            IN  /\ Cardinality(written) = 1
                /\ \A k \in written :
                      /\ Len(files[k].test_functions) = Len(resource_tests[r].tests)
                      /\ \A g \in 1..Len(resource_tests[r].tests) :
                            \E i \in 1..Len(files[k].test_functions) :
                                files[k].test_functions[i].src = resource_tests[r].tests[g].samples[1].src

\* a transaction with a JSON request body and a JSON response body
JsonExchange(cap) ==
    /\ Contains(RequestContentType(cap), "application/json")
    /\ json_loads(cap.req_body).ok
    /\ cap.has_body
    /\ json_loads(cap.resp_body).ok

\* the response is one the proxy capture generator takes for a file: it has a
\* content-disposition header that says attachment
AttachmentResponse(gen_, cap) ==
    gen_ = "mitm" /\ Contains(HeaderGet(cap.resp_headers, "content-disposition", ""), "attachment")

\* the expected value of a test deep-equals the JSON document of the response
\* its capture record holds
ExpectsResponseDocument(t) ==
    /\ PyLiteral(t.expected).ok
    /\ DeepEq(PyLiteral(t.expected).v, json_loads(CaptureOf(t.src).resp_body).v)

\* C9 (as stated): for a transaction with a JSON request body and a JSON
\* response body, normalization, grouping and synthesis yield a test whose
\* expected value deep-equals the JSON document of the first recorded response.
C9_RoundTripAnyResponse ==
    \A t \in AllTests : JsonExchange(CaptureOf(t.src)) => ExpectsResponseDocument(t)

\* C9 (amended): the same, for a response that is not an attachment; the
\* expected value of an attachment is the text of its body.
C9_RoundTrip ==
    \A t \in AllTests :
        (JsonExchange(CaptureOf(t.src)) /\ ~AttachmentResponse(gen, CaptureOf(t.src)))
        => ExpectsResponseDocument(t)

\* a test was written for a JSON exchange that is no attachment, and its
\* expected value is the response document as a Python literal
C9_Witness ==
    \E t \in AllTests :
        /\ JsonExchange(CaptureOf(t.src))
        /\ ~AttachmentResponse(gen, CaptureOf(t.src))
        /\ CaptureOf(t.src).resp_body = "{\"id\": 7, \"tags\": [\"x\"]}"
        /\ t.expected = "{'id': 7, 'tags': ['x']}"

\* C10: when the response of the canonical sample is not a file response and
\* its body is not valid JSON (an empty or whitespace-only body included), the
\* expected value of the generated test is the raw response body string, in
\* both generators.
C10_NonJsonFallback ==
    \A t \in AllTests :
        (~t.file_assert /\ ~json_loads(CaptureOf(t.src).resp_body).ok)
        => /\ PyLiteral(t.expected).ok
           /\ PyLiteral(t.expected).v = PyStr(CaptureOf(t.src).resp_body)

\* the response headers hold a Content-Disposition header, its name in any
\* letter case, whose value says attachment
HasAttachmentHeader(cap) ==
    \E i \in 1..Len(cap.resp_headers) :
        /\ Lower(cap.resp_headers[i].k) = "content-disposition"
        /\ Contains(cap.resp_headers[i].v, "attachment")

\* C11: in the proxy capture generator a sample is classified as a file
\* response exactly when its response headers hold a Content-Disposition
\* header with a value containing attachment, whatever the letter case of the
\* header name.
C11_FileClassification ==
    gen = "mitm" =>
        \A x \in AllSamples : x.response_is_file <=> HasAttachmentHeader(CaptureOf(x.src))

\* the class the proxy capture generator gives a request body: the kind of its
\* body signature
BodyClass(x) == mitm_body_key(x.request_body).kind

\* C12: two requests with the same Content-Type and non-empty bodies are
\* classified into the same request body class, whatever the payloads hold.
C12_ClassByContentType ==
    gen = "mitm" =>
        \A x \in AllSamples, y \in AllSamples :
            (/\ RequestContentType(CaptureOf(x.src)) = RequestContentType(CaptureOf(y.src))
             /\ CaptureOf(x.src).req_body # ""
             /\ CaptureOf(y.src).req_body # "")
            => BodyClass(x) = BodyClass(y)

RECURSIVE SameDocument(_, _)
\* two JSON documents that differ at most in the order of the keys of their
\* objects, at any depth
SameDocument(a, b) ==
    IF a.t = "dict" /\ b.t = "dict" THEN
        /\ Len(a.items) = Len(b.items)
        /\ \A i \in 1..Len(a.items) :
              /\ HasKey(b, a.items[i].k)
              /\ SameDocument(a.items[i].v, DictGet(b, a.items[i].k))
    ELSE IF a.t = "list" /\ b.t = "list" THEN
        /\ Len(a.items) = Len(b.items)
        /\ \A i \in 1..Len(a.items) : SameDocument(a.items[i].v, b.items[i].v)
    ELSE a = b

\* the key=value pieces of the query string of a capture record
QueryPieces(cap) ==
    LET pieces == Split(urlparse(cap.url).query, "&")
    IN  {pieces[i] : i \in 1..Len(pieces)}

\* two capture records that differ only in the order of their query keys or in
\* the key order of their JSON request bodies
SameUpToKeyOrder(c1, c2) ==
    /\ c1.method = c2.method
    /\ urlparse(c1.url).path = urlparse(c2.url).path
    /\ QueryPieces(c1) = QueryPieces(c2)
    /\ c1.req_headers = c2.req_headers
    /\ \/ c1.req_body = c2.req_body
       \/ /\ Contains(RequestContentType(c1), "application/json")
          /\ json_loads(c1.req_body).ok
          /\ json_loads(c2.req_body).ok
          /\ SameDocument(json_loads(c1.req_body).v, json_loads(c2.req_body).v)

\* C13: two transactions that differ only in the order of their query-string
\* keys, or only in the key insertion order of their JSON request body at any
\* nesting depth, have the same signature and fall into the same group.
C13_KeyOrderIndependence ==
    \A x \in AllSamples, y \in AllSamples :
        SameUpToKeyOrder(CaptureOf(x.src), CaptureOf(y.src))
        => /\ group_key(gen, x) = group_key(gen, y)
           /\ GroupOfRecord(x.src) = GroupOfRecord(y.src)

\* the permutations of 1..n
Shuffles(n) == {f \in [1..n -> 1..n] : \A i, j \in 1..n : i # j => f[i] # f[j]}

\* the group keys of a grouping of records and, for each key, the set of the
\* member records
KeysAndMembers(groups, records) ==
    { [key |-> groups[k].key,
       members |-> {records[groups[k].samples[i].src] : i \in 1..Len(groups[k].samples)}] :
      k \in 1..Len(groups) }

\* the grouping loop has gone through every record
GroupingOver == (pc = "group" /\ idx > Len(transactions)) \/ pc = "write"

\* C14: for every permutation of the list of transactions, grouping yields
\* the same set of group keys and, per key, the same set of members.
C14_OrderIndependence ==
    GroupingOver =>
        \A f \in Shuffles(Len(transactions)) :
            LET shuffled == [i \in 1..Len(transactions) |-> transactions[f[i]]]
            IN  KeysAndMembers(GroupRecords(gen, shuffled, 1, <<>>), shuffled)
                    = KeysAndMembers(endpoint_tests, transactions)

\* the text of the query value of a one-parameter request
QueryValueOf(cap) == Split1(urlparse(cap.url).query, "=")[2]

\* the five kinds of a coerced value
CoercedKinds == {"str", "int", "float", "bool", "none"}

\* C15: for every input string, the superscript digits included, parse_value
\* returns a value of one of the five kinds and never raises, so the parameter
\* of the request is in the parsed parameters.
C15_CoercionTotal ==
    \A x \in AllSamples :
        /\ parse_value(QueryValueOf(CaptureOf(x.src))).t \in CoercedKinds
        /\ HasKey(PyDict(x.params), "v")
        /\ DictGet(PyDict(x.params), "v").t \in CoercedKinds

\* the value parse_query_params stored for the parameter of a one-parameter
\* request; ValueError when it stored none
CoercedValueOf(x) ==
    IF HasKey(PyDict(x.params), "v") THEN DictGet(PyDict(x.params), "v") ELSE ValueError

IsAsciiStr(value) == \A i \in 1..Len(value) : IsIn(Ch(value, i), Ascii)

\* value is word in some letter case (word is in lower case)
EqualsIgnoringCase(value, word) ==
    /\ Len(value) = Len(word)
    /\ \A i \in 1..Len(word) : LowerCh(Ch(value, i)) = Ch(word, i)

\* every character of value is one of 0-9, and there is one at least
AllAsciiDigits(value) == Len(value) > 0 /\ \A i \in 1..Len(value) : IsIn(Ch(value, i), Digits)

RECURSIVE DropLeadingZeros(_)
DropLeadingZeros(value) ==
    IF Len(value) > 1 /\ Ch(value, 1) = "0" THEN DropLeadingZeros(From(value, 2)) ELSE value

\* value is matched by one of the rules before the Float rule
EarlierRule(value) ==
    \/ value = ""
    \/ EqualsIgnoringCase(value, "null")
    \/ EqualsIgnoringCase(value, "true")
    \/ EqualsIgnoringCase(value, "false")
    \/ AllAsciiDigits(value)

\* value holds exactly one dot and every other character is one of 0-9
OneDotRestDigits(value) ==
    /\ Cardinality({i \in 1..Len(value) : Ch(value, i) = "."}) = 1
    /\ \A i \in 1..Len(value) : Ch(value, i) = "." \/ IsIn(Ch(value, i), Digits)

\* C16: for every ASCII input string parse_value returns the result of the
\* first matching rule: "" -> String(""), null in any case -> Null, true and
\* false in any case -> Bool, all ASCII digits -> Int with leading zeros
\* dropped, and a string matching none of the numeric rules -> the unmodified
\* String.
C16_CoercionPrecedence ==
    \A x \in AllSamples :
        LET value == QueryValueOf(CaptureOf(x.src))
            result == CoercedValueOf(x)
        IN  IsAsciiStr(value) =>
                /\ value = "" => result = PyStr("")
                /\ EqualsIgnoringCase(value, "null") => result = PyNone
                /\ EqualsIgnoringCase(value, "true") => result = PyBool(TRUE)
                /\ EqualsIgnoringCase(value, "false") => result = PyBool(FALSE)
                /\ AllAsciiDigits(value) =>
                      result.t = "int" /\ IntToStr(result.n) = DropLeadingZeros(value)
                /\ (~EarlierRule(value) /\ ~OneDotRestDigits(value)) => result = PyStr(value)

\* the run coerced 007 to the Int 7
C16_Witness ==
    \E x \in AllSamples :
        QueryValueOf(CaptureOf(x.src)) = "007" /\ CoercedValueOf(x) = PyInt(7)

\* C17 (as stated): parse_value returns a Float exactly for the strings, not
\* matched by an earlier rule, that hold exactly one dot and whose every other
\* character is a digit, the lone "." included.
C17_FloatRuleAnyDot ==
    \A x \in AllSamples :
        LET value == QueryValueOf(CaptureOf(x.src))
        IN  (CoercedValueOf(x).t = "float") <=> (~EarlierRule(value) /\ OneDotRestDigits(value))

\* C17 (amended): the same for the strings that hold one digit at least; the
\* lone "." is returned as a String.
C17_FloatRule ==
    \A x \in AllSamples :
        LET value == QueryValueOf(CaptureOf(x.src))
        IN  /\ (CoercedValueOf(x).t = "float")
                <=> (~EarlierRule(value) /\ OneDotRestDigits(value) /\ value # ".")
            /\ value = "." => CoercedValueOf(x) = PyStr(".")

\* the run coerced the boundary shape .5 to the Float 0.5
C17_Witness ==
    \E x \in AllSamples :
        QueryValueOf(CaptureOf(x.src)) = ".5" /\ CoercedValueOf(x) = PyFloat(5, 10)

\* v1, v2, ...: the letter v and digits
IsVersionSegment(segment) ==
    Len(segment) >= 2 /\ Ch(segment, 1) = "v" /\ AllAsciiDigits(From(segment, 2))

\* the fixed stoplist of generic segment names
GenericSegments == {"workspace", "new_operplan", "perspective_plan"}

\* the non-empty segments of a path that are not the literal api, not a
\* version segment and not in the stoplist, by position
MeaningfulSegments(endpoint) ==
    LET parts == Split(StripCh(endpoint, "/"), "/")
    IN  {i \in 1..Len(parts) :
            /\ parts[i] # ""
            /\ parts[i] # "api"
            /\ ~IsVersionSegment(parts[i])
            /\ parts[i] \notin GenericSegments}

\* the first meaningful segment of a path that has one
FirstMeaningful(endpoint) ==
    Split(StripCh(endpoint, "/"), "/")[SetMin(MeaningfulSegments(endpoint))]

\* the groups of every resource of the partition, each with its resource name
PartitionedGroups ==
    UNION { {[resource |-> resource_tests[r].resource, group |-> resource_tests[r].tests[g]] :
              g \in 1..Len(resource_tests[r].tests)} : r \in 1..Len(resource_tests) }

\* C18: the resource of a group is the first path segment that is not the
\* literal api, not a version segment and not in the stoplist, in both
\* generators: /api/v1/orders/123 and /api/orders/123 both yield orders.
C18_ResourceNaming ==
    \A p \in PartitionedGroups :
        LET endpoint == urlparse(CaptureOf(p.group.samples[1].src).url).path
        IN  (/\ MeaningfulSegments(endpoint) # {}
             /\ \A i \in 1..Len(FirstMeaningful(endpoint)) : IsAlnum(Ch(FirstMeaningful(endpoint), i)))
            => p.resource = FirstMeaningful(endpoint)

\* C19: after partitioning every resource name is non-empty and consists only
\* of characters in [A-Za-z0-9_], and a derived name that is empty has become
\* unknown_resource.
C19_ResourceNamesWellFormed ==
    \A p \in PartitionedGroups :
        /\ p.resource # ""
        /\ \A i \in 1..Len(p.resource) : IsAlnum(Ch(p.resource, i)) \/ Ch(p.resource, i) = "_"
        /\ RawResource(gen, p.group.endpoint) = "" => p.resource = "unknown_resource"

\* the partition holds a resource whose derived name was empty and one whose
\* derived name had a character replaced
C19_Witness ==
    /\ \E p \in PartitionedGroups :
          RawResource(gen, p.group.endpoint) = "" /\ p.resource = "unknown_resource"
    /\ \E p \in PartitionedGroups :
          RawResource(gen, p.group.endpoint) = "a-b" /\ p.resource = "a_b"

\* the order of two tests by (path, hasBody, key-sorted params), hasBody being
\* whether the extracted request body is non-empty: "lt", "eq", "gt" or "err"
OrderKeyCompare(a, b) ==
    IF a.url_path # b.url_path
    THEN (IF StrLess(a.url_path, b.url_path, 1) THEN "lt" ELSE "gt")
    ELSE IF Truthy(a.request_body) # Truthy(b.request_body)
    THEN (IF Truthy(b.request_body) THEN "lt" ELSE "gt")
    ELSE ItemsCompare(SortedItems(a.params), SortedItems(b.params), 1)

\* for every resource file, the sequence of the capture records its tests
\* were made from
WrittenOrder(written, records) ==
    { [resource |-> written[k].resource,
       tests |-> [i \in 1..Len(written[k].test_functions) |->
                     records[written[k].test_functions[i].src]]] : k \in 1..Len(written) }

\* C20 (as stated): the sequence of tests written for a resource is fully
\* determined by the set of its groups: when every record is a group of its
\* own, no permutation of the capture changes the order of the tests of a file.
C20_OrderBySetOfGroups ==
    (pc = "exit" /\ Len(endpoint_tests) = Len(transactions)) =>
        \A f \in Shuffles(Len(transactions)) :
            LET shuffled == [i \in 1..Len(transactions) |-> transactions[f[i]]]
            IN  WrittenOrder(FilesOf(gen, shuffled), shuffled) = WrittenOrder(files, transactions)

\* C20 (amended): within a resource file the tests are in ascending order of
\* (path, hasBody, key-sorted params), and tests that tie on this key are in
\* the order in which their groups were first captured.
C20_WrittenOrder ==
    \A k \in 1..Len(files) :
        \A i, j \in 1..Len(files[k].test_functions) :
            i < j =>
                LET a == files[k].test_functions[i]
                    b == files[k].test_functions[j]
                IN  /\ OrderKeyCompare(a, b) \in {"lt", "eq"}
                    /\ OrderKeyCompare(a, b) = "eq" => a.src < b.src

\* a file was written with two tests that tie on the key
C20_Witness ==
    \E k \in 1..Len(files) : \E i, j \in 1..Len(files[k].test_functions) :
        /\ i < j
        /\ OrderKeyCompare(files[k].test_functions[i], files[k].test_functions[j]) = "eq"
        /\ files[k].test_functions[i].src < files[k].test_functions[j].src

\* the records grouped so far whose signature is key, by position in the input
RecordsWithSignature(key) ==
    {i \in 1..Len(transactions) :
        /\ (pc = "group" => i < idx)
        /\ extract_api_info(gen, transactions[i], i).outcome = "ok"
        /\ KeyEq(group_key(gen, extract_api_info(gen, transactions[i], i).info), key)}

\* the test generated for group g says what the first record with the
\* signature of g says: its parameters, its request body, its expected output
TestOfFirstMember(g, t) ==
    LET first == SetMin(RecordsWithSignature(g.key))
        info == extract_api_info(gen, transactions[first], first).info
    IN  /\ RecordsWithSignature(g.key) # {}
        /\ t.src = first
        /\ t.params = info.params
        /\ t.request_body = info.request_body
        /\ t.expected = generate_expected_data(gen, info)

\* every group, and every test written, stands for the first member
FirstMemberIsCanonical ==
    /\ \A g \in AllGroups : TestOfFirstMember(g, generate_test_function(gen, g))
    /\ \A t \in AllTests : \E g \in AllGroups :
           g.samples[1].src = t.src /\ TestOfFirstMember(g, t)

\* a step leaves every group where it is, with its canonical fields, and only
\* appends to its members
MembersOnlyAppended ==
    \A k \in 1..Len(endpoint_tests) :
        /\ k <= Len(endpoint_tests')
        /\ endpoint_tests'[k] = [endpoint_tests[k] EXCEPT !.samples = endpoint_tests'[k].samples]
        /\ Len(endpoint_tests'[k].samples) >= Len(endpoint_tests[k].samples)
        /\ SubSeq(endpoint_tests'[k].samples, 1, Len(endpoint_tests[k].samples))
               = endpoint_tests[k].samples
        /\ generate_test_function(gen, endpoint_tests'[k])
               = generate_test_function(gen, endpoint_tests[k])

\* C21: the parameters, the request body and the expected output of the test
\* of a group are those of the first record, in input order, that has the
\* signature of the group; a later member is appended to the members and
\* changes neither the group nor its test
C21_CanonicalSample == []FirstMemberIsCanonical /\ [][MembersOnlyAppended]_vars

\* a test is written for a group of two members that differ in the order of
\* their parameters and in their responses, and it says what the first says
C21_Witness ==
    \E t \in AllTests : \E g \in AllGroups :
        /\ g.samples[1].src = t.src
        /\ Len(g.samples) = 2
        /\ g.samples[2].params # g.samples[1].params
        /\ g.samples[2].response_data # g.samples[1].response_data
        /\ t.params = g.samples[1].params
        /\ t.expected = generate_expected_data(gen, g.samples[1])
        /\ t.expected # generate_expected_data(gen, g.samples[2])

\* two records the recorder generator grouped that agree in path, method and
\* query parameters and differ in the request body
SameRequestButBody(i, j) ==
    LET a == extract_api_info(gen, transactions[i], i).info
        b == extract_api_info(gen, transactions[j], j).info
    IN  /\ GroupOfRecord(i) # 0 /\ GroupOfRecord(j) # 0
        /\ a.endpoint = b.endpoint
        /\ a.method = b.method
        /\ ItemsEq(SortedItems(a.params), SortedItems(b.params))
        /\ transactions[i].req_body # transactions[j].req_body

\* C22: in the recorder generator two records with the same path, method and
\* query parameters and different request bodies are in different groups
C22_RecorderKeyHasBody ==
    gen = "pw" =>
        \A i, j \in 1..Len(transactions) :
            SameRequestButBody(i, j) => GroupOfRecord(i) # GroupOfRecord(j)

\* the non-empty segments of a path, in order
Segments(path) == SelectSeq(Split(StripCh(path, "/"), "/"), LAMBDA part : part # "")

\* C23: a path without a meaningful segment is filed under its last segment,
\* the name other is used only for a path without segments, and a path of one
\* segment, such as /health, is filed under that segment
C23_ResourceFallback ==
    \A p \in PartitionedGroups :
        LET path == urlparse(CaptureOf(p.group.samples[1].src).url).path
            segs == Segments(path)
        IN  /\ (MeaningfulSegments(path) = {} /\ Len(segs) > 0)
                   => p.resource = SubNonAlnum(segs[Len(segs)])
            /\ (Len(segs) > 0 /\ \A i \in 1..Len(segs) : segs[i] # "other")
                   => p.resource # "other"
            /\ Len(segs) = 1 => p.resource = SubNonAlnum(segs[1])

\* the Content-Disposition line of the file part of an uploaded body text
DispositionLine(body) ==
    LET at == Find(body, "Content-Disposition:", 1)
    IN  SubSeq(body, at, Find(body, "\r\n", at) - 1)

\* the value of the attribute attr of a Content-Disposition line: the text
\* between the quotes after `; attr="`, "" when the line has no such attribute
AttributeOf(line, attr) ==
    LET at == Find(line, "; " \o attr \o "=\"", 1)
        open == at + Len(attr) + 4
    IN  IF at = 0 THEN "" ELSE SubSeq(line, open, Find(line, "\"", open) - 1)

\* C24: the field name extracted from a file part is the value of its name
\* attribute, file when it has none, and never the value of its filename
\* attribute, in whatever order the attributes stand
C24_FieldName ==
    \A g \in AllGroups :
        (gen = "mitm" /\ g.request_body.t = "dict" /\ HasKey(g.request_body, "field_name")) =>
            LET line == DispositionLine(CaptureOf(g.samples[1].src).req_body)
                name == AttributeOf(line, "name")
            IN  DictGet(g.request_body, "field_name")
                    = PyStr(IF name = "" THEN "file" ELSE name)

\* the keys of a JSON object in sorted order
SortedKeys(body) ==
    LET items == SortedItems(body.items)
    IN  [i \in 1..Len(items) |-> items[i].k]

\* with_ and the first two keys of a JSON-object body in sorted key order,
\* joined by _, as it stands inside a name
SortedKeySuffix(body) ==
    LET keys == SortedKeys(body)
    IN  Lower(SubNonAlnum("_with_" \o Join(SubSeq(keys, 1, IF Len(keys) < 2 THEN Len(keys) ELSE 2), "_")))

\* C25: the name of a test with a JSON-object request body carries with_ and
\* the first two keys of the body in sorted key order, so that bodies equal up
\* to key order give one name
C25_SortedKeySuffix ==
    \A t \in AllTests :
        (gen = "mitm" /\ t.call = "json") => Contains(t.name, SortedKeySuffix(t.request_body))

\* the name synthesized for every group, and the name of every written test
SynthesizedNames ==
    {t.name : t \in AllTests}
    \cup {create_test_function_name(gen, g.endpoint, g.params, g.request_body).name :
            g \in {h \in AllGroups : ~create_test_function_name(gen, h.endpoint, h.params, h.request_body).err}}

\* only lower-case ASCII letters, digits and underscores
IsSnakeText(text) ==
    \A i \in 1..Len(text) :
        IsIn(Ch(text, i), LowerCase) \/ IsIn(Ch(text, i), Digits) \/ Ch(text, i) = "_"

\* C26 as stated: a name starts with test_, is made of lower-case ASCII
\* letters, digits and underscores, and has no two consecutive underscores
C26_NoDoubleUnderscore ==
    \A name \in SynthesizedNames :
        /\ StartsWithAt(name, "test_", 1)
        /\ IsSnakeText(name)
        /\ ~Contains(name, "__")

\* C26: a name is test_ followed by a non-empty text of lower-case ASCII
\* letters, digits and underscores that has no two consecutive underscores;
\* the text itself may begin with an underscore
C26_NameShape ==
    \A name \in SynthesizedNames :
        /\ StartsWithAt(name, "test_", 1)
        /\ Len(name) > 5
        /\ IsSnakeText(name)
        /\ ~Contains(From(name, 6), "__")

\* the files hold a name whose text begins with an underscore and a name in
\* which a run of three replaced characters became one underscore
C26_Witness ==
    /\ \E t \in AllTests : t.name = "test__1" /\ t.url_path = "/api/items/-1"
    /\ \E t \in AllTests :
          t.name = "test_find_search_abcdefghij_" /\ ScalarToStr(t.params[1].v) = "abcdefghijklmnopqrstuvwxy"

\* the body infos of every transaction the converter made, each with its bytes
ConvertedBodies ==
    {[raw |-> transactions[k].request_raw, info |-> transactions[k].request] :
        k \in 1..Len(transactions)}
    \cup {[raw |-> transactions[k].response_raw, info |-> transactions[k].response] :
        k \in {j \in 1..Len(transactions) : transactions[j].has_response}}

\* C27: the converter stores a body that is valid UTF-8 as text under
\* body_text, and a body that is not valid UTF-8 base64-encoded under
\* body_base64
C27_BodyDecoding ==
    gen = "mitm_parser" =>
        \A b \in ConvertedBodies :
            Len(b.raw) > 0 =>
                IF IsValidUtf8(b.raw)
                THEN /\ "body_text" \in b.info.keys
                     /\ "body_base64" \notin b.info.keys
                     /\ b.info.body_text = Utf8Replace(b.raw, 1)
                ELSE /\ "body_base64" \in b.info.keys
                     /\ "body_text" \notin b.info.keys
                     /\ b.info.body_base64 = BytesB64(b.raw)

\* two grouped records on one path and method with the same parameter names,
\* one of which coerces to values of different kinds in the two records
CoerceToDifferentKinds(i, j) ==
    LET a == extract_api_info(gen, transactions[i], i).info
        b == extract_api_info(gen, transactions[j], j).info
    IN  /\ GroupOfRecord(i) # 0 /\ GroupOfRecord(j) # 0
        /\ a.endpoint = b.endpoint
        /\ a.method = b.method
        /\ Len(a.params) = Len(b.params)
        /\ \E k \in 1..Len(a.params) : \E l \in 1..Len(b.params) :
              a.params[k].k = b.params[l].k /\ a.params[k].v.t # b.params[l].v.t

\* C28: two records on the same path and method whose same-named query
\* parameter coerces to values of different kinds, such as Int 1 from x=1 and
\* Bool true from x=true, are in different groups
C28_KindsKeptApart ==
    \A i, j \in 1..Len(transactions) :
        CoerceToDifferentKinds(i, j) => GroupOfRecord(i) # GroupOfRecord(j)

\* the records the grouping loop has normalized so far
Normalized ==
    {i \in 1..Len(transactions) :
        i < idx /\ extract_api_info(gen, transactions[i], i).outcome = "ok"}

\* the places where record i stands: group and position among its members
PlacesOfRecord(i) ==
    {<<k, m>> \in (1..Len(endpoint_tests)) \X (1..MaxBatch + 1) :
        m <= Len(endpoint_tests[k].samples) /\ endpoint_tests[k].samples[m].src = i}

\* the places where group k stands: resource and position among its groups
PlacesOfGroup(k) ==
    {<<r, n>> \in (1..Len(resource_tests)) \X (1..MaxBatch + 1) :
        n <= Len(resource_tests[r].tests) /\ resource_tests[r].tests[n] = endpoint_tests[k]}

RECURSIVE SumOfLens(_, _)
\* the sum of the lengths lens[i], ..., lens[Len(lens)]
SumOfLens(lens, i) == IF i > Len(lens) THEN 0 ELSE lens[i] + SumOfLens(lens, i + 1)

\* the partition of the groups has been made
Partitioned == pc = "write" \/ (pc = "exit" /\ exit_code = 0 /\ Len(endpoint_tests) > 0)

\* C29: every record normalized so far is a member of exactly one group, the
\* member counts sum to the number of these records and no group is empty;
\* after partitioning every group is in exactly one resource and the sizes of
\* the resources sum to the number of groups
C29_Conservation ==
    (pc \in {"group", "write", "exit"} /\ gen \in {"mitm", "pw"}) =>
        /\ \A i \in Normalized : Cardinality(PlacesOfRecord(i)) = 1
        /\ SumOfLens([k \in 1..Len(endpoint_tests) |-> Len(endpoint_tests[k].samples)], 1)
              = Cardinality(Normalized)
        /\ \A k \in 1..Len(endpoint_tests) : Len(endpoint_tests[k].samples) > 0
        /\ Partitioned =>
              /\ \A k \in 1..Len(endpoint_tests) : Cardinality(PlacesOfGroup(k)) = 1
              /\ SumOfLens([r \in 1..Len(resource_tests) |-> Len(resource_tests[r].tests)], 1)
                    = Len(endpoint_tests)
              /\ \A r \in 1..Len(resource_tests) : Len(resource_tests[r].tests) > 0

\* the partition is made of a capture whose two records went into one group
C29_Witness ==
    /\ Partitioned
    /\ Cardinality(Normalized) = 2
    /\ Len(endpoint_tests) = 1
    /\ Len(endpoint_tests[1].samples) = 2
    /\ Len(resource_tests) = 1
    /\ resource_tests[1].tests = <<endpoint_tests[1]>>

\* a step taken while recording is off leaves the captured requests as they are
NoCaptureWhileOff ==
    ~recorder.is_recording => recorder'.captured_requests = recorder.captured_requests

\* C30: recording is off at first, and from the processing of a stop command
\* to the processing of the next start command, that is while is_recording
\* is false, the list of captured requests does not grow, however the
\* response handlers and the commands interleave
C30_StopIsEffective == ~recorder.is_recording /\ [][NoCaptureWhileOff]_vars

====
